---------------------------- MODULE Spec2Model ----------------------------
(***************************************************************************)
(* A model of the notebook evaluator of matshitlab: the Workspace class of *)
(* src/src/lib/Workspace.ts with the value types it binds.                 *)
(*                                                                         *)
(* Source text is modelled as a sequence of one-character strings, so the  *)
(* string operations of the code (split, trim, indexOf, substring) are     *)
(* computed character by character.  Texts the code produces (formatted    *)
(* results, error messages) are sequences of strings too; a fixed piece of *)
(* a template literal is kept as one element.                              *)
(*                                                                         *)
(* Numbers are kept as thousandths (milli), with a flag for Infinity.      *)
(* Number() is modelled on unsigned decimal literals, the empty text and   *)
(* the word Infinity; signs, exponents and radix prefixes are not in the   *)
(* alphabet of the inputs.                                                 *)
(***************************************************************************)
EXTENDS Integers, Sequences, FiniteSets, TLC

VARIABLES variables, history, lastCode, lastResult, submitted

\* The array getHistory handed to its caller last, and whether it is the
\* Workspace's own array.
VARIABLE handed

\* The library called directly, one method call at a time: the call made
\* last, what it returned or threw, and the locals of a decompose call that
\* is still in its loop.
VARIABLES call, outcome, sift

\* The Matrix objects of the second variant of the class and the row arrays
\* they hold: rowArrays[a] is the row array at address a, matrices[k] is
\* the data field of object k, a sequence of row addresses.
VARIABLES rowArrays, matrices

workspaceVars == <<variables, history, lastCode, lastResult, submitted, handed>>

libraryVars == <<call, outcome, sift, rowArrays, matrices>>

heapVars == <<rowArrays, matrices>>

vars ==
  <<variables, history, lastCode, lastResult, submitted, handed, call, outcome, sift,
    rowArrays, matrices>>

-----------------------------------------------------------------------------
(* Bounds of the model.                                                    *)

\* The total number of source lines handed to execute over a whole run; one
\* call may take all of them.
MaxSubmitted == 2

-----------------------------------------------------------------------------
(* String primitives of the host language, on sequences of characters.     *)

Min(S) == CHOOSE x \in S : \A y \in S : x <= y

Max(S) == CHOOSE x \in S : \A y \in S : x >= y

\* Whitespace as String.prototype.trim sees it, over the model's alphabet.
IsSpace(c) == c \in {" ", "\n", "\t"}

\* String.prototype.trim
Trim(s) ==
  LET keep == {i \in 1..Len(s) : ~IsSpace(s[i])}
  IN  IF keep = {} THEN <<>> ELSE SubSeq(s, Min(keep), Max(keep))

\* String.prototype.indexOf(pat): 0-based, -1 when absent.
IndexOf(s, pat) ==
  LET hits == {i \in 0..(Len(s) - Len(pat)) : SubSeq(s, i + 1, i + Len(pat)) = pat}
  IN  IF hits = {} THEN 0 - 1 ELSE Min(hits)

\* String.prototype.includes(pat)
Includes(s, pat) == IndexOf(s, pat) # 0 - 1

\* String.prototype.startsWith(pat)
StartsWith(s, pat) == Len(s) >= Len(pat) /\ SubSeq(s, 1, Len(pat)) = pat

\* String.prototype.substring(a, b): arguments clamped and swapped.
Substring(s, a, b) ==
  LET ca == IF a < 0 THEN 0 ELSE IF a > Len(s) THEN Len(s) ELSE a
      cb == IF b < 0 THEN 0 ELSE IF b > Len(s) THEN Len(s) ELSE b
      lo == IF ca <= cb THEN ca ELSE cb
      hi == IF ca <= cb THEN cb ELSE ca
  IN  SubSeq(s, lo + 1, hi)

\* String.prototype.split(sep) for a one-character separator.
RECURSIVE Split(_, _)
Split(s, sep) ==
  LET i == IndexOf(s, <<sep>>)
  IN  IF i = 0 - 1 THEN <<s>>
      ELSE <<SubSeq(s, 1, i)>> \o Split(SubSeq(s, i + 2, Len(s)), sep)

\* Array.prototype.join(sep) on an array of texts.
RECURSIVE Join(_, _)
Join(parts, sep) ==
  IF parts = <<>> THEN <<>>
  ELSE IF Len(parts) = 1 THEN parts[1]
  ELSE parts[1] \o sep \o Join(Tail(parts), sep)

\* Is text a an infix of text b?
IsInfix(a, b) == \E i \in 0..(Len(b) - Len(a)) : SubSeq(b, i + 1, i + Len(a)) = a

-----------------------------------------------------------------------------
(* Numbers.                                                                *)

DigitChars == <<"0", "1", "2", "3", "4", "5", "6", "7", "8", "9">>

IsDigit(c) == \E d \in 1..10 : DigitChars[d] = c

DigitVal(c) == (CHOOSE d \in 1..10 : DigitChars[d] = c) - 1

\* The value of a run of decimal digits.
RECURSIVE DigitsVal(_)
DigitsVal(s) ==
  IF s = <<>> THEN 0 ELSE DigitsVal(SubSeq(s, 1, Len(s) - 1)) * 10 + DigitVal(s[Len(s)])

\* The decimal digits of a natural number.
RECURSIVE NatToText(_)
NatToText(n) ==
  IF n < 10 THEN <<DigitChars[n + 1]>> ELSE NatToText(n \div 10) \o <<DigitChars[(n % 10) + 1]>>

InfinityText == <<"I", "n", "f", "i", "n", "i", "t", "y">>

NaN == [nan |-> TRUE, inf |-> FALSE, milli |-> 0]

Finite(m) == [nan |-> FALSE, inf |-> FALSE, milli |-> m]

Infinite == [nan |-> FALSE, inf |-> TRUE, milli |-> 0]

\* Number(text): the empty (or blank) text is 0, Infinity is Infinity, an
\* unsigned decimal literal is its value, anything else is NaN.
Number(text) ==
  LET t    == Trim(text)
      dot  == IndexOf(t, <<".">>)
      ip   == IF dot = 0 - 1 THEN t ELSE SubSeq(t, 1, dot)
      fp   == IF dot = 0 - 1 THEN <<>> ELSE SubSeq(t, dot + 2, Len(t))
      fp3  == SubSeq(fp \o <<"0", "0", "0">>, 1, 3)
  IN  IF t = <<>> THEN Finite(0)
      ELSE IF t = InfinityText THEN Infinite
      ELSE IF /\ \A i \in 1..Len(ip) : IsDigit(ip[i])
              /\ \A i \in 1..Len(fp) : IsDigit(fp[i])
              /\ Len(ip) + Len(fp) > 0
           THEN Finite(DigitsVal(ip) * 1000 + DigitsVal(fp3))
      ELSE NaN

\* String(number)
NumberToText(n) ==
  LET ip == n.milli \div 1000
      fr == n.milli % 1000
      f3 == <<DigitChars[(fr \div 100) + 1], DigitChars[((fr \div 10) % 10) + 1],
              DigitChars[(fr % 10) + 1]>>
      nz == {i \in 1..3 : f3[i] # "0"}
  IN  IF n.inf THEN InfinityText
      ELSE IF fr = 0 THEN NatToText(ip)
      ELSE NatToText(ip) \o <<".">> \o SubSeq(f3, 1, Max(nz))

-----------------------------------------------------------------------------
(* Classified errors (SimulationError) and exceptions of the host.         *)

NoCause == [type |-> "nil"]

\* new SimulationError(message, type, originalError)
SimulationError(msg, type, cause) == [type |-> type, msg |-> msg, cause |-> cause]

\* An exception of the host language (RangeError, TypeError): it carries no
\* classification.
HostError(msg) == [type |-> "unclassified", msg |-> msg, cause |-> NoCause]

Ok(v) == [ok |-> TRUE, val |-> v]

Fail(e) == [ok |-> FALSE, err |-> e]

-----------------------------------------------------------------------------
(* JSON.parse, on numbers, strings, the three literals, arrays and flat or *)
(* nested objects.  Positions are 1-based indexes of the next character.   *)

JNum(n) == [t |-> "num", num |-> n]

JStr(s) == [t |-> "str", str |-> s]

JLit(w) == [t |-> "lit", lit |-> w]

JArr(items) == [t |-> "arr", items |-> items]

JObj(keys, vals) == [t |-> "obj", keys |-> keys, vals |-> vals]

JParsed(v, p) == [ok |-> TRUE, val |-> v, pos |-> p]

JBad == [ok |-> FALSE]

\* The first position at or after p that holds no whitespace.
SkipSpace(s, p) ==
  LET rest == {i \in p..Len(s) : ~IsSpace(s[i])}
  IN  IF rest = {} THEN Len(s) + 1 ELSE Min(rest)

\* The first position at or after p that holds no digit.
SkipDigits(s, p) ==
  LET rest == {i \in p..Len(s) : ~IsDigit(s[i])}
  IN  IF rest = {} THEN Len(s) + 1 ELSE Min(rest)

\* A JSON number: an integer part without a leading zero, then an optional
\* fraction of at least one digit.
JsonNumber(s, p) ==
  LET e1  == SkipDigits(s, p)
      dot == e1 <= Len(s) /\ s[e1] = "."
      e2  == IF dot THEN SkipDigits(s, e1 + 1) ELSE e1
  IN  IF e1 = p \/ (e1 - p > 1 /\ s[p] = "0") \/ (dot /\ e2 = e1 + 1) THEN JBad
      ELSE JParsed(JNum(Number(SubSeq(s, p, e2 - 1))), e2)

\* A JSON string without escapes.
JsonString(s, p) ==
  LET close == {i \in (p + 1)..Len(s) : s[i] = "\""}
  IN  IF close = {} THEN JBad
      ELSE JParsed(JStr(SubSeq(s, p + 1, Min(close) - 1)), Min(close) + 1)

JsonLiteral(s, p) ==
  IF SubSeq(s, p, p + 3) = <<"n", "u", "l", "l">> THEN JParsed(JLit("null"), p + 4)
  ELSE IF SubSeq(s, p, p + 3) = <<"t", "r", "u", "e">> THEN JParsed(JLit("true"), p + 4)
  ELSE IF SubSeq(s, p, p + 4) = <<"f", "a", "l", "s", "e">> THEN JParsed(JLit("false"), p + 5)
  ELSE JBad

RECURSIVE JsonValue(_, _), JsonItems(_, _, _), JsonMembers(_, _, _, _)
JsonValue(s, p0) ==
  LET p == SkipSpace(s, p0)
  IN  IF p > Len(s) THEN JBad
      ELSE IF s[p] = "[" THEN
        LET q == SkipSpace(s, p + 1)
        IN  IF q <= Len(s) /\ s[q] = "]" THEN JParsed(JArr(<<>>), q + 1)
            ELSE JsonItems(s, q, <<>>)
      ELSE IF s[p] = "{" THEN
        LET q == SkipSpace(s, p + 1)
        IN  IF q <= Len(s) /\ s[q] = "}" THEN JParsed(JObj(<<>>, <<>>), q + 1)
            ELSE JsonMembers(s, q, <<>>, <<>>)
      ELSE IF s[p] = "\"" THEN JsonString(s, p)
      ELSE IF IsDigit(s[p]) THEN JsonNumber(s, p)
      ELSE JsonLiteral(s, p)

JsonItems(s, p, acc) ==
  LET After(items, q) ==
        IF q > Len(s) THEN JBad
        ELSE IF s[q] = "," THEN JsonItems(s, q + 1, items)
        ELSE IF s[q] = "]" THEN JParsed(JArr(items), q + 1)
        ELSE JBad
      Item(v) == IF ~v.ok THEN JBad ELSE After(Append(acc, v.val), SkipSpace(s, v.pos))
  IN  Item(JsonValue(s, p))

JsonMembers(s, p0, keys, vals) ==
  LET After(ks, vs, q) ==
        IF q > Len(s) THEN JBad
        ELSE IF s[q] = "," THEN JsonMembers(s, q + 1, ks, vs)
        ELSE IF s[q] = "}" THEN JParsed(JObj(ks, vs), q + 1)
        ELSE JBad
      Member(ks, v) ==
        IF ~v.ok THEN JBad ELSE After(ks, Append(vals, v.val), SkipSpace(s, v.pos))
      Colon(ks, c) ==
        IF c <= Len(s) /\ s[c] = ":" THEN Member(ks, JsonValue(s, c + 1)) ELSE JBad
      Key(k) == IF ~k.ok THEN JBad ELSE Colon(Append(keys, k.val.str), SkipSpace(s, k.pos))
      Start(p) == IF p <= Len(s) /\ s[p] = "\"" THEN Key(JsonString(s, p)) ELSE JBad
  IN  Start(SkipSpace(s, p0))

\* JSON.parse(text): the whole text must be one value.
JsonParse(s) ==
  LET Whole(v) == IF v.ok /\ SkipSpace(s, v.pos) > Len(s) THEN v ELSE JBad
  IN  Whole(JsonValue(s, 1))

\* The text of a parsed value as Array.prototype.join renders an element.
RECURSIVE JsonToText(_)
JsonToText(v) ==
  IF v.t = "num" THEN NumberToText(v.num)
  ELSE IF v.t = "str" THEN v.str
  ELSE IF v.t = "lit" THEN (IF v.lit = "null" THEN <<>> ELSE <<v.lit>>)
  ELSE IF v.t = "arr" THEN Join([i \in 1..Len(v.items) |-> JsonToText(v.items[i])], <<",">>)
  ELSE <<"[object Object]">>

\* A parsed literal handed to a built-in as its argument.
JsonV(j) == [kind |-> "json", json |-> j]

\* The number a parsed literal coerces to in arithmetic.
JsonToNumber(j) ==
  IF j.t = "num" THEN j.num
  ELSE IF j.t = "str" THEN Number(j.str)
  ELSE IF j.t = "lit" THEN (IF j.lit = "true" THEN Finite(1000) ELSE Finite(0))
  ELSE IF j.t = "arr" THEN Number(JsonToText(j))
  ELSE NaN

-----------------------------------------------------------------------------
(* The values a Workspace binds: number, Signal, Matrix, built-in function. *)

NumV(n) == [kind |-> "number", num |-> n]

FnV(name) == [kind |-> "function", builtin |-> name]

\* A Signal: its sample count, its sample rate and the waveform it holds.
\* The samples themselves are irrational in general and are not computed.
SigV(n, rate, wave) == [kind |-> "Signal", length |-> n, sampleRate |-> rate, wave |-> wave]

\* A Matrix: the grid it was constructed from.
MatV(rows) == [kind |-> "Matrix", data |-> rows]

\* The number an argument contributes to arithmetic: a missing argument
\* (undefined) and every object or function coerce to NaN.
ArgNumber(args, i) ==
  IF i > Len(args) THEN NaN
  ELSE IF args[i].kind = "number" THEN args[i].num
  ELSE IF args[i].kind = "json" THEN JsonToNumber(args[i].json)
  ELSE NaN

-----------------------------------------------------------------------------
(* Matrix construction.                                                    *)

\* Matrix.validateData followed by the constructor's assignment; `given` is
\* FALSE when the constructor is called without an argument (data = [[]]).
MatrixNew(given, data) ==
  IF ~given THEN Ok(MatV(<<<<>>>>))
  ELSE IF data.t # "arr" \/ data.items = <<>> \/ data.items[1].t # "arr"
    THEN Fail(SimulationError(<<"Invalid matrix data: expected 2D array">>, "validation", NoCause))
  ELSE IF \E i \in 1..Len(data.items) :
            \/ data.items[i].t # "arr"
            \/ Len(data.items[i].items) # Len(data.items[1].items)
    THEN Fail(SimulationError(<<"Invalid matrix data: rows must have equal length">>,
                              "validation", NoCause))
  ELSE Ok(MatV([i \in 1..Len(data.items) |-> data.items[i].items]))

\* Matrix.toString
MatrixToString(m) ==
  <<"Matrix[">> \o NatToText(Len(m.data)) \o <<"x">> \o NatToText(Len(m.data[1]))
    \o <<"]", "\n">>
    \o Join([i \in 1..Len(m.data) |->
               Join([j \in 1..Len(m.data[i]) |-> JsonToText(m.data[i][j])], <<"\t">>)],
            <<"\n">>)

-----------------------------------------------------------------------------
(* Signal construction and the generators behind the built-ins.            *)

DefaultSampleRate == 44100

\* The sample count as it would be if the product were rounded up.
SampleCountRoundsUp(duration, sampleRate) ==
  IF duration.nan \/ sampleRate.nan \/ duration.inf \/ sampleRate.inf THEN NaN
  ELSE Finite(((duration.milli \div 1000) * (sampleRate.milli \div 1000)
               + ((duration.milli % 1000) * (sampleRate.milli \div 1000) + 999) \div 1000)
              * 1000)

\* Math.floor(duration * sampleRate), exactly (the code computes it in
\* double precision).
SampleCount(duration, sampleRate) ==
  IF duration.nan \/ sampleRate.nan THEN NaN
  ELSE IF duration.inf \/ sampleRate.inf THEN
    (IF (~duration.inf /\ duration.milli = 0) \/ (~sampleRate.inf /\ sampleRate.milli = 0)
     THEN NaN ELSE Infinite)
  ELSE
    \* floor(D * R / 10^6) for D, R in thousandths, without a product that
    \* leaves the range of the checker's integers.
    LET d1 == duration.milli \div 1000
        d0 == duration.milli % 1000
        r1 == sampleRate.milli \div 1000
        r0 == sampleRate.milli % 1000
    IN  Finite((d1 * r1 + (d1 * r0 + d0 * r1 + (d0 * r0) \div 1000) \div 1000) * 1000)

\* new Signal(data, sampleRate) on n samples, of which some are NaN or not:
\* Signal.validateData rejects an array that holds a NaN.
SignalNew(n, holdsNaN, rate, wave) ==
  IF n > 0 /\ holdsNaN
  THEN Fail(SimulationError(<<"Invalid signal data: array must contain only numbers">>,
                            "validation", NoCause))
  ELSE Ok(SigV(n, rate, wave))

\* Signal.getTimeArray: one instant per sample.
getTimeArray(signal) == [i \in 1..signal.length |-> [sample |-> i - 1, rate |-> signal.sampleRate]]

\* new Float64Array(samples) then new Signal(Array.from(data), sampleRate),
\* where freqOk says whether the samples computed are numbers.
SignalOfSamples(samples, freqOk, rate, wave) ==
  IF samples.inf THEN Fail(HostError(<<"Invalid typed array length: Infinity">>))
  ELSE SignalNew(IF samples.nan THEN 0 ELSE samples.milli \div 1000, ~freqOk, rate, wave)

\* Signal.generateSine and Signal.generateSquare as the built-ins call them:
\* a failure inside is rethrown as a computation error that wraps it.
GenerateWave(wave, args) ==
  LET Catch(made) ==
        IF made.ok THEN made
        ELSE Fail(SimulationError(<<"Failed to generate ", wave, " signal">>,
                                  "computation", made.err))
      Generate(frequency, duration, sampleRate) ==
        Catch(SignalOfSamples(SampleCount(duration, sampleRate),
                              ~frequency.nan /\ ~frequency.inf, sampleRate, wave))
  IN  Generate(ArgNumber(args, 1), ArgNumber(args, 2),
               IF Len(args) >= 3 THEN ArgNumber(args, 3)
               ELSE Finite(DefaultSampleRate * 1000))

-----------------------------------------------------------------------------
(* Signal.generateChirp.                                                   *)

MethodKey == <<"m", "e", "t", "h", "o", "d">>

LinearText == <<"l", "i", "n", "e", "a", "r">>

\* The property `key` of the options value: absent unless the options are an
\* object literal that names it (the last occurrence wins) or, for
\* sampleRate, a Signal, whose field of that name is read.
HasOption(options, key) ==
  \/ options.kind = "json" /\ options.json.t = "obj"
       /\ \E i \in 1..Len(options.json.keys) : options.json.keys[i] = key
  \/ options.kind = "Signal" /\ key = <<"s", "a", "m", "p", "l", "e", "R", "a", "t", "e">>

OptionNumber(options, key) ==
  IF ~HasOption(options, key) THEN NaN
  ELSE IF options.kind = "Signal" THEN options.sampleRate
  ELSE JsonToNumber(options.json.vals[Max({i \in 1..Len(options.json.keys) :
                                            options.json.keys[i] = key})])

\* method === "linear", with "linear" the default of an absent method.
IsLinear(options) ==
  \/ ~HasOption(options, MethodKey)
  \/ LET m == options.json.vals[Max({i \in 1..Len(options.json.keys) :
                                      options.json.keys[i] = MethodKey})]
     IN  m.t = "str" /\ m.str = LinearText

PositiveFinite(n) == ~n.nan /\ ~n.inf /\ n.milli > 0

\* Signal.generateChirp(options); `given` is FALSE for a call without
\* arguments.  The samples are numbers unless an operand is missing or not
\* finite or, under the exponential method, the frequency ratio is 0, 1 or
\* undefined (its logarithm, or the division by it, is not finite).
generateChirp(given, options) ==
  LET rateKey == <<"s", "a", "m", "p", "l", "e", "R", "a", "t", "e">>
      Generate(startFreq, endFreq, duration, sampleRate) ==
        SignalOfSamples(SampleCount(duration, sampleRate),
                        IF IsLinear(options)
                        THEN ~startFreq.nan /\ ~startFreq.inf /\ ~endFreq.nan /\ ~endFreq.inf
                        ELSE /\ PositiveFinite(startFreq) /\ PositiveFinite(endFreq)
                             /\ startFreq.milli # endFreq.milli,
                        sampleRate, "chirp")
  IN  IF ~given \/ (options.kind = "json" /\ options.json.t = "lit" /\ options.json.lit = "null")
      THEN Fail(HostError(<<"Cannot destructure property 'startFreq' of 'options'">>))
      ELSE Generate(OptionNumber(options, <<"s", "t", "a", "r", "t", "F", "r", "e", "q">>),
                    OptionNumber(options, <<"e", "n", "d", "F", "r", "e", "q">>),
                    OptionNumber(options, <<"d", "u", "r", "a", "t", "i", "o", "n">>),
                    IF HasOption(options, rateKey) THEN OptionNumber(options, rateKey)
                    ELSE Finite(DefaultSampleRate * 1000))

-----------------------------------------------------------------------------
(* The Workspace.                                                          *)

SineName == <<"s", "i", "n", "e">>

SquareName == <<"s", "q", "u", "a", "r", "e">>

ChirpName == <<"c", "h", "i", "r", "p">>

MatrixName == <<"m", "a", "t", "r", "i", "x">>

BuiltinNames == {SineName, SquareName, ChirpName, MatrixName}

\* Workspace.registerBuiltins: the environment after construction.
registerBuiltins ==
  (SineName :> FnV("sine")) @@ (SquareName :> FnV("square"))
    @@ (ChirpName :> FnV("chirp")) @@ (MatrixName :> FnV("matrix"))

\* set as it would be if a key already present kept its value.
MapSetKeepsOld(vs, name, value) == vs @@ (name :> value)

\* Map.prototype.set
MapSet(vs, name, value) == (name :> value) @@ vs

\* Map.prototype.get reports an absent key as undefined.
MapHas(vs, name) == name \in DOMAIN vs

\* The call func(...args) of a built-in registered by registerBuiltins.
CallBuiltin(fn, args) ==
  IF fn.builtin = "matrix" THEN
    (IF args # <<>> /\ args[1].kind # "json"
     THEN Fail(SimulationError(<<"Invalid matrix data: expected 2D array">>, "validation", NoCause))
     ELSE MatrixNew(args # <<>>, IF args = <<>> THEN JArr(<<>>) ELSE args[1].json))
  ELSE IF fn.builtin = "chirp" THEN
    generateChirp(args # <<>>, IF args = <<>> THEN NumV(NaN) ELSE args[1])
  ELSE GenerateWave(fn.builtin, args)


\* removeInlineComments as it would be if the comment were left in place.
removeInlineCommentsKeeps(line) == Trim(line)

\* Workspace.removeInlineComments
removeInlineComments(line) ==
  LET commentIndex == IndexOf(line, <<"/", "/">>)
  IN  IF commentIndex # 0 - 1 THEN Trim(Substring(line, 0, commentIndex)) ELSE Trim(line)

\* Workspace.findMatchingParenthesis: the 0-based index of the first ")" at
\* which the count of open parentheses returns to zero, or a failure.
findMatchingParenthesis(expr) ==
  LET count(i) == Cardinality({j \in 1..i : expr[j] = "("})
                    - Cardinality({j \in 1..i : expr[j] = ")"})
      hits == {i \in 1..Len(expr) :
                 /\ expr[i] = ")"
                 /\ \E j \in 1..i : expr[j] = "("
                 /\ count(i) = 0}
  IN  IF hits = {} THEN Fail(SimulationError(<<"Unmatched parentheses">>, "validation", NoCause))
      ELSE Ok(Min(hits) - 1)

WordChars ==
  {"a", "b", "c", "d", "e", "f", "g", "h", "i", "j", "k", "l", "m", "n", "o", "p", "q",
   "r", "s", "t", "u", "v", "w", "x", "y", "z", "A", "B", "C", "D", "E", "F", "G", "H",
   "I", "J", "K", "L", "M", "N", "O", "P", "Q", "R", "S", "T", "U", "V", "W", "X", "Y",
   "Z", "0", "1", "2", "3", "4", "5", "6", "7", "8", "9", "_"}

\* argsStr.replace(/(\w+):/g, '"$1":')
RECURSIVE QuoteKeys(_)
QuoteKeys(s) ==
  LET colons == {i \in 2..Len(s) : s[i] = ":" /\ s[i - 1] \in WordChars}
      c      == Min(colons)
      start  == Min({j \in 1..(c - 1) : \A k \in j..(c - 1) : s[k] \in WordChars})
  IN  IF colons = {} THEN s
      ELSE SubSeq(s, 1, start - 1) \o <<"\"">> \o SubSeq(s, start, c - 1) \o <<"\"", ":">>
             \o QuoteKeys(SubSeq(s, c + 1, Len(s)))

\* text.replace(/'/g, '"')
DoubleQuotes(s) == [i \in 1..Len(s) |-> IF s[i] = "'" THEN "\"" ELSE s[i]]

\* text.replace(/\s+/g, "")
StripSpace(s) == SelectSeq(s, LAMBDA c : ~IsSpace(c))

\* The text of sample i of a Signal as join renders it: sample 0 of every
\* generated waveform is sin(0) = 0; the others are not computed.
SampleText(i) == IF i = 0 THEN <<"0">> ELSE <<<<"y0", "y1", "y2", "y3", "y4">>[i + 1]>>

\* Workspace.formatOutput
formatOutput(value) ==
  IF value.kind = "Signal" THEN
    <<"Signal[">> \o NatToText(value.length) \o <<" samples] = [">>
      \o Join([i \in 1..(IF value.length < 5 THEN value.length ELSE 5) |-> SampleText(i - 1)],
              <<",", " ">>)
      \o <<"...]">>
  ELSE IF value.kind = "Matrix" THEN MatrixToString(value)
  ELSE IF value.kind = "function" THEN <<"[Function]">>
  ELSE NumberToText(value.num)

\* The variable reference of evaluateExpression as it would be if the value
\* were tested for truth (if (value)) instead of compared with undefined.
LookupVariableTruthy(vs, expr) ==
  IF MapHas(vs, expr) /\ vs[expr] # NumV(Finite(0)) THEN Ok(vs[expr])
  ELSE Fail(SimulationError(<<"Cannot evaluate expression: '">> \o expr \o <<"'">>,
                            "validation", NoCause))

\* The variable reference of evaluateExpression: the bound value, or a
\* validation error when the name is not bound.
LookupVariable(vs, expr) ==
  IF MapHas(vs, expr) THEN Ok(vs[expr])
  ELSE Fail(SimulationError(<<"Cannot evaluate expression: '">> \o expr \o <<"'">>,
                            "validation", NoCause))

RECURSIVE evaluateExpression(_, _), evaluateFunctionCall(_, _), parseArguments(_, _, _),
          EvaluateEach(_, _, _)

\* Workspace.parseArguments
parseArguments(vs, argsStr, funcName) ==
  IF argsStr = <<>> THEN Ok(<<>>)
  ELSE IF funcName = MatrixName THEN
    LET Catch(parsed) ==
          IF parsed.ok THEN Ok(<<JsonV(parsed.val)>>)
          ELSE Fail(SimulationError(<<"Invalid matrix format">>, "validation", NoCause))
    IN  Catch(JsonParse(StripSpace(argsStr)))
  ELSE IF funcName = ChirpName /\ StartsWith(argsStr, <<"{">>) THEN
    LET Catch(parsed) ==
          IF parsed.ok THEN Ok(<<JsonV(parsed.val)>>)
          ELSE Fail(SimulationError(<<"Invalid options object format">>, "validation",
                                    NoCause))
    IN  Catch(JsonParse(DoubleQuotes(QuoteKeys(argsStr))))
  ELSE EvaluateEach(vs, Split(argsStr, ","), <<>>)

\* The callback of argsStr.split(",").map, applied left to right: a number
\* when the trimmed text is one, the value of the expression otherwise; the
\* first failure ends the map.
EvaluateEach(vs, parts, acc) ==
  IF parts = <<>> THEN Ok(acc)
  ELSE
    LET Mapped(r) == IF r.ok THEN EvaluateEach(vs, Tail(parts), Append(acc, r.val)) ELSE r
        Argument(trimmed, num) ==
          Mapped(IF ~num.nan THEN Ok(NumV(num)) ELSE evaluateExpression(vs, trimmed))
    IN  Argument(Trim(Head(parts)), Number(Trim(Head(parts))))

\* Workspace.evaluateFunctionCall
evaluateFunctionCall(vs, expr) ==
  LET Call(func, args) == IF ~args.ok THEN args ELSE CallBuiltin(func, args.val)
      Found(funcName, argsStr) ==
        IF ~MapHas(vs, funcName) \/ vs[funcName].kind # "function"
        THEN Fail(SimulationError(<<"Function '">> \o funcName \o <<"' is not defined">>,
                                  "validation", NoCause))
        ELSE Call(vs[funcName], parseArguments(vs, argsStr, funcName))
      Matched(open, close) ==
        IF ~close.ok THEN close
        ELSE Found(Trim(Substring(expr, 0, open)),
                   Trim(Substring(expr, open + 1, close.val)))
  IN  Matched(IndexOf(expr, <<"(">>), findMatchingParenthesis(expr))

\* Workspace.evaluateExpression
evaluateExpression(vs, expr) ==
  IF expr = <<>> THEN Fail(SimulationError(<<"Empty expression">>, "validation", NoCause))
  ELSE IF Includes(expr, <<"(">>) THEN evaluateFunctionCall(vs, expr)
  ELSE LET Literal(num) == IF ~num.nan THEN Ok(NumV(num)) ELSE LookupVariable(vs, expr)
       IN  Literal(Number(expr))


\* What a call leaves behind: the text it returns or the error it throws,
\* and the environment and history after it.
Returned(text, vs, hist) ==
  [ok |-> TRUE, text |-> text, err |-> NoCause, variables |-> vs, history |-> hist]

Thrown(e, vs, hist) ==
  [ok |-> FALSE, text |-> <<>>, err |-> e, variables |-> vs, history |-> hist]

\* The try block of executeLine as it would be without the check of the two
\* sides of an assignment.
LineBodyUnchecked(vs, line) ==
  LET Shown(value) ==
        IF ~value.ok THEN Thrown(value.err, vs, <<>>)
        ELSE Returned(formatOutput(value.val), vs, <<>>)
      Bound(varName, value) ==
        IF ~value.ok THEN Thrown(value.err, vs, <<>>)
        ELSE Returned(varName \o <<" ", "=", " ">> \o formatOutput(value.val),
                      MapSet(vs, varName, value.val), <<>>)
      Assign(parts) == Bound(Trim(parts[1]), evaluateExpression(vs, Trim(parts[2])))
  IN  IF Includes(line, <<"=">>) THEN Assign(Split(line, "="))
      ELSE Shown(evaluateExpression(vs, line))

\* The try block of executeLine as it would be if the name were bound (to 0)
\* before its right side is evaluated.
LineBodyBindsFirst(vs, line) ==
  LET Shown(value) ==
        IF ~value.ok THEN Thrown(value.err, vs, <<>>)
        ELSE Returned(formatOutput(value.val), vs, <<>>)
      Bound(varName, value) ==
        IF ~value.ok THEN Thrown(value.err, MapSet(vs, varName, NumV(Finite(0))), <<>>)
        ELSE Returned(varName \o <<" ", "=", " ">> \o formatOutput(value.val),
                      MapSet(vs, varName, value.val), <<>>)
      Assign(varName, expression) ==
        IF varName = <<>> \/ expression = <<>>
        THEN Thrown(SimulationError(<<"Invalid assignment">>, "validation", NoCause), vs, <<>>)
        ELSE Bound(varName, evaluateExpression(vs, expression))
      Sides(parts) == Assign(Trim(parts[1]), Trim(parts[2]))
  IN  IF Includes(line, <<"=">>) THEN Sides(Split(line, "="))
      ELSE Shown(evaluateExpression(vs, line))

\* The statement of executeLine inside its try block.
LineBody(vs, line) ==
  LET Shown(value) ==
        IF ~value.ok THEN Thrown(value.err, vs, <<>>)
        ELSE Returned(formatOutput(value.val), vs, <<>>)
      Bound(varName, value) ==
        IF ~value.ok THEN Thrown(value.err, vs, <<>>)
        ELSE Returned(varName \o <<" ", "=", " ">> \o formatOutput(value.val),
                      MapSet(vs, varName, value.val), <<>>)
      Assign(varName, expression) ==
        IF varName = <<>> \/ expression = <<>>
        THEN Thrown(SimulationError(<<"Invalid assignment">>, "validation", NoCause), vs, <<>>)
        ELSE Bound(varName, evaluateExpression(vs, expression))
      Sides(parts) == Assign(Trim(parts[1]), Trim(parts[2]))
  IN  IF Includes(line, <<"=">>) THEN Sides(Split(line, "="))
      ELSE Shown(evaluateExpression(vs, line))

\* executeLine as it would be if the error of a failing line were passed on
\* as it is.
executeLineBare(vs, line) ==
  IF line = <<>> THEN Returned(<<>>, vs, <<>>) ELSE LineBody(vs, line)

\* Workspace.executeLine: the error of a failing line is rethrown as a
\* runtime error whose message quotes the line.
executeLine(vs, line) ==
  IF line = <<>> THEN Returned(<<>>, vs, <<>>)
  ELSE
    LET Catch(r) ==
          IF r.ok THEN r
          ELSE Thrown(SimulationError(<<"Line \"">> \o line \o <<"\": ">> \o r.err.msg,
                                      "runtime", r.err),
                      r.variables, <<>>)
    IN  Catch(LineBody(vs, line))

\* The lines execute keeps: trimmed, not empty, not starting a comment.
KeptLines(code) ==
  LET trimmed == [i \in 1..Len(Split(code, "\n")) |-> Trim(Split(code, "\n")[i])]
  IN  SelectSeq(trimmed, LAMBDA line : line # <<>> /\ ~StartsWith(line, <<"/", "/">>))

\* The loop of execute as it would be if each result were put in front of
\* the results before it.
RECURSIVE ExecuteLoopReversed(_, _, _, _, _)
ExecuteLoopReversed(vs, hist, lines, i, result) ==
  IF i > Len(lines) THEN Returned(Trim(result), vs, hist)
  ELSE
    LET Step(r) ==
          IF ~r.ok THEN Thrown(r.err, r.variables, hist)
          ELSE IF r.text # <<>>
            THEN ExecuteLoopReversed(r.variables, Append(hist, lines[i]), lines, i + 1,
                                     r.text \o <<"\n">> \o result)
          ELSE ExecuteLoopReversed(r.variables, hist, lines, i + 1, result)
    IN  Step(executeLine(vs, removeInlineComments(lines[i])))

\* The loop of execute over the kept lines, from line i on.
RECURSIVE ExecuteLoop(_, _, _, _, _)
ExecuteLoop(vs, hist, lines, i, result) ==
  IF i > Len(lines) THEN Returned(Trim(result), vs, hist)
  ELSE
    LET Step(r) ==
          IF ~r.ok THEN Thrown(r.err, r.variables, hist)
          ELSE IF r.text # <<>>
            THEN ExecuteLoop(r.variables, Append(hist, lines[i]), lines, i + 1,
                             result \o r.text \o <<"\n">>)
          ELSE ExecuteLoop(r.variables, hist, lines, i + 1, result)
    IN  Step(executeLine(vs, removeInlineComments(lines[i])))

\* execute as it would be if a failing call restored the environment and
\* history it started from.
executeRollsBack(vs, hist, code) ==
  LET Catch(r) ==
        IF r.ok THEN r
        ELSE Thrown(SimulationError(<<"Execution error: ">> \o r.err.msg, "runtime", r.err),
                    vs, hist)
  IN  Catch(ExecuteLoop(vs, hist, KeptLines(code), 1, <<>>))

\* Workspace.execute
execute(vs, hist, code) ==
  LET Catch(r) ==
        IF r.ok THEN r
        ELSE Thrown(SimulationError(<<"Execution error: ">> \o r.err.msg, "runtime", r.err),
                    r.variables, r.history)
  IN  Catch(ExecuteLoop(vs, hist, KeptLines(code), 1, <<>>))

\* Workspace.getValue
getValue(name) == IF MapHas(variables, name) THEN variables[name] ELSE [kind |-> "undefined"]

\* Workspace.getHistory
getHistory == history

\* getHistory as it would be if it returned the Workspace's own array.
getHistoryItself(hist) == [given |-> TRUE, shared |-> TRUE, items |-> hist, pushed |-> FALSE]

\* The array Workspace.getHistory returns: a new array of the same items.
getHistoryArray(hist) == [given |-> TRUE, shared |-> FALSE, items |-> hist, pushed |-> FALSE]

-----------------------------------------------------------------------------
(* The source lines handed to execute.                                     *)

LineAssignZero == <<"a", " ", "=", " ", "0">>

LineAssignTwo == <<"a", " ", "=", " ", "2">>

LineCopy == <<"b", " ", "=", " ", "a", " ", "/", "/", " ", "c">>

LineBare == <<"a">>

LineBadExpr == <<"b", "a", "d", "E", "x", "p", "r", "(">>

LineShadow == <<"s", "i", "n", "e", " ", "=", " ", "5">>

LineSine ==
  <<"s", " ", "=", " ", "s", "i", "n", "e", "(", "2", ",", " ", "1", ".", "5", ",", " ",
    "2", ")">>

LineNoName == <<"=", " ", "5">>

LineNoValue == <<"x", " ", "=">>

LineMatrix ==
  <<"m", " ", "=", " ", "m", "a", "t", "r", "i", "x", "(", "[", "[", "1", ",", "2", "]",
    ",", "[", "3", ",", "4", "]", "]", ")">>

LineMethod ==
  <<"t", " ", "=", " ", "m", ".", "t", "r", "a", "n", "s", "p", "o", "s", "e", "(", ")">>

LineNested ==
  <<"y", " ", "=", " ", "s", "i", "n", "e", "(", "s", "i", "n", "e", "(", "1", ",", " ",
    "2", ")", ",", " ", "3", ")">>

LineComment == <<"/", "/", " ", "c">>

LineBlank == <<" ", " ">>

LineInfinity == <<"I", "n", "f", "i", "n", "i", "t", "y", " ", "=", " ", "3">>

LineSineFails ==
  <<"s", " ", "=", " ", "s", "i", "n", "e", "(", "I", "n", "f", "i", "n", "i", "t", "y",
    ",", " ", "1", ",", " ", "2", ")">>

LineChirpNoArgs == <<"c", " ", "=", " ", "c", "h", "i", "r", "p", "(", ")">>

LineRagged ==
  <<"r", " ", "=", " ", "m", "a", "t", "r", "i", "x", "(", "[", "[", "1", ",", "2", "]",
    ",", "[", "3", "]", "]", ")">>

LineMatrixText ==
  <<"w", " ", "=", " ", "m", "a", "t", "r", "i", "x", "(", "[", "[", "\"", "a", "\"",
    "]", "]", ")">>

LineSineDefault ==
  <<"d", " ", "=", " ", "s", "i", "n", "e", "(", "1", ",", " ", "0", ".", "0", "0", "1",
    ")">>

Catalogue ==
  {LineAssignZero, LineAssignTwo, LineCopy, LineBare, LineBadExpr, LineShadow,
   LineSine, LineNoName, LineNoValue, LineMatrix, LineMethod, LineNested, LineComment,
   LineBlank, LineInfinity, LineSineFails, LineChirpNoArgs, LineRagged, LineMatrixText,
   LineSineDefault}

\* The sequences of catalogue lines a call may be given.
LineSeqs == UNION {[1..n -> Catalogue] : n \in 1..MaxSubmitted}

-----------------------------------------------------------------------------
(* The state machine: one Workspace and the execute calls made on it.      *)

NoResult == [status |-> "none", text |-> <<>>, err |-> NoCause]

\* No method of the library has been called.
NoCall == [op |-> "none"]

NoOutcome == [status |-> "none"]

NoSift == [active |-> FALSE]

\* getHistory has not been called.
NoHanded == [given |-> FALSE]

\* new Workspace()
Init ==
  /\ variables = registerBuiltins
  /\ history = <<>>
  /\ lastCode = <<>>
  /\ lastResult = NoResult
  /\ submitted = 0
  /\ handed = NoHanded
  /\ call = NoCall
  /\ outcome = NoOutcome
  /\ sift = NoSift
  /\ rowArrays = <<>>
  /\ matrices = <<>>

\* workspace.execute(code): the call returns a text or throws; the bindings
\* and history entries made before a throw stay.  An array handed out that
\* is the Workspace's own shows the entries pushed.
Execute(code, n) ==
  /\ submitted + n <= MaxSubmitted
  /\ \E r \in {execute(variables, history, code)} :
       /\ variables' = r.variables
       /\ history' = r.history
       /\ lastResult' = [status |-> IF r.ok THEN "returned" ELSE "thrown",
                         text |-> r.text, err |-> r.err]
       /\ handed' = IF handed.given /\ handed.shared
                     THEN [handed EXCEPT !.items = r.history] ELSE handed
  /\ lastCode' = code
  /\ submitted' = submitted + n
  /\ UNCHANGED libraryVars

\* The code of a call: its lines joined by line breaks.
Code(ls) == Join(ls, <<"\n">>)

Next == \E ls \in LineSeqs : Execute(Code(ls), Len(ls))

Spec == Init /\ [][Next]_vars

-----------------------------------------------------------------------------
(* The Workspace with a caller that reads its history.                     *)

\* workspace.getHistory()
GetHistory ==
  /\ handed' = getHistoryArray(history)
  /\ UNCHANGED <<variables, history, lastCode, lastResult, submitted, libraryVars>>

\* The caller pushes a line onto the array it was handed; the push reaches
\* the Workspace's history when the array is the Workspace's own.
PushHanded(line) ==
  /\ handed.given /\ ~handed.pushed
  /\ handed' = [handed EXCEPT !.items = Append(@, line), !.pushed = TRUE]
  /\ history' = IF handed.shared THEN Append(history, line) ELSE history
  /\ UNCHANGED <<variables, lastCode, lastResult, submitted, libraryVars>>

\* The lines of the calls made beside a reading caller.
HistoryCatalogue == {LineAssignZero, LineCopy, LineBare, LineBadExpr, LineComment}

HistoryLineSeqs == UNION {[1..n -> HistoryCatalogue] : n \in 1..MaxSubmitted}

HistoryNext ==
  \/ \E ls \in HistoryLineSeqs : Execute(Code(ls), Len(ls))
  \/ GetHistory
  \/ PushHanded(LineShadow)

HistorySpec == Init /\ [][HistoryNext]_vars

-----------------------------------------------------------------------------
(* The numeric library called directly.  Samples and matrix entries are    *)
(* whole numbers here, so that the arithmetic of the code on them is exact *)
(* in thousandths; a value is a finite number or NaN.                      *)

\* The rows and columns of a matrix handed to multiply are at most this.
MaxDim == 2

\* The sample count of a Signal a method is called on is at most this.
MaxSamples == 4

\* numModes of a decompose call is at most this.
MaxModes == 2

\* scales of a waveletTransform call is at most this.
MaxScales == 2

\* a + b
NumPlus(a, b) ==
  IF a.nan \/ b.nan THEN NaN
  ELSE IF a.inf \/ b.inf THEN Infinite
  ELSE Finite(a.milli + b.milli)

\* a - b, for b finite or NaN
NumMinus(a, b) ==
  IF a.nan \/ b.nan THEN NaN
  ELSE IF a.inf THEN Infinite
  ELSE Finite(a.milli - b.milli)

\* a * b
NumTimes(a, b) ==
  IF a.nan \/ b.nan THEN NaN
  ELSE IF a.inf \/ b.inf
    THEN (IF (~a.inf /\ a.milli = 0) \/ (~b.inf /\ b.milli = 0) THEN NaN ELSE Infinite)
  ELSE Finite((a.milli * b.milli) \div 1000)

\* The outcome of a call, as its caller sees it.
Outcome(r) ==
  IF r.ok THEN [status |-> "returned", value |-> r.val]
  ELSE [status |-> "thrown", err |-> r.err]

-----------------------------------------------------------------------------
(* Matrix.multiply                                                         *)

\* sum += this.data[i][k] * other.data[k][j], for k from 1 to p, from 0.
RECURSIVE DotProduct(_, _, _, _, _)
DotProduct(this, other, i, j, p) ==
  IF p = 0 THEN Finite(0)
  ELSE NumPlus(DotProduct(this, other, i, j, p - 1),
               NumTimes(JsonToNumber(this.data[i][p]), JsonToNumber(other.data[p][j])))

\* Matrix.multiply: whatever its try block throws, the dimension check's
\* own error included, is rethrown as a computation error that wraps it.
MatrixMultiply(this, other) ==
  LET Catch(r) ==
        IF r.ok THEN r
        ELSE Fail(SimulationError(<<"Matrix multiplication failed">>, "computation", r.err))
      product ==
        [i \in 1..Len(this.data) |->
           JArr([j \in 1..Len(other.data[1]) |->
                   JNum(DotProduct(this, other, i, j, Len(other.data)))])]
  IN  Catch(IF Len(this.data[1]) # Len(other.data)
            THEN Fail(SimulationError(<<"Invalid matrix dimensions for multiplication">>,
                                      "validation", NoCause))
            ELSE MatrixNew(TRUE, JArr(product)))

\* The r x c matrix whose entry in row i, column j is 10 i + j.
MatrixOfShape(r, c) ==
  MatV([i \in 1..r |-> [j \in 1..c |-> JNum(Finite((10 * i + j) * 1000))]])

Matrices == {MatrixOfShape(r, c) : r \in 1..MaxDim, c \in 0..MaxDim}

\* this.multiply(other)
Multiply(this, other) ==
  /\ ~sift.active
  /\ call' = [op |-> "multiply", this |-> this, other |-> other]
  /\ outcome' = Outcome(MatrixMultiply(this, other))
  /\ UNCHANGED <<workspaceVars, heapVars, sift>>

-----------------------------------------------------------------------------
(* Signals that hold their samples, and the methods called on them.        *)

\* new Signal(data, sampleRate) on an array of samples: Signal.validateData
\* rejects an array that holds a NaN.
SignalData(data, rate) ==
  IF \E i \in 1..Len(data) : data[i].nan
  THEN Fail(SimulationError(<<"Invalid signal data: array must contain only numbers">>,
                            "validation", NoCause))
  ELSE Ok([kind |-> "Signal", length |-> Len(data), sampleRate |-> rate,
           wave |-> "samples", data |-> data])

\* The sample rate of a Signal constructed without one.
ConstructorSampleRate == 1000

\* The Signals the methods are called on: every array of at most MaxSamples
\* samples out of 0 and 1.
SampleValues == {Finite(0), Finite(1000)}

Signals ==
  UNION {{SignalData(data, Finite(ConstructorSampleRate * 1000)).val :
            data \in [1..n -> SampleValues]} : n \in 0..MaxSamples}

\* Signal.fft (the recursive radix-2 transform): the bins returned, whose
\* values are not computed, or the TypeError of reading a half's missing bin.
RECURSIVE fft(_)
fft(data) ==
  LET N == Len(data)
      Bins(n) == [k \in 1..n |-> "bin"]
      Combine(even, odd) ==
        IF ~even.ok THEN even
        ELSE IF ~odd.ok THEN odd
        ELSE IF \E k \in 0..((N + 1) \div 2 - 1) : k >= Len(odd.val) \/ k >= Len(even.val)
          THEN Fail(HostError(<<"Cannot read properties of undefined (reading 're')">>))
        ELSE Ok(Bins(N))
  IN  IF N <= 1 THEN Ok(Bins(N))
      ELSE Combine(fft([i \in 1..((N + 1) \div 2) |-> data[2 * i - 1]]),
                   fft([i \in 1..(N \div 2) |-> data[2 * i]]))

\* Signal.getSpectrum: one magnitude per bin of fft.
getSpectrum(data) ==
  LET Magnitudes(spectrum) ==
        IF spectrum.ok THEN Ok([k \in 1..Len(spectrum.val) |-> "magnitude"]) ELSE spectrum
  IN  Magnitudes(fft(data))

\* Math.cos((2 * Math.PI * i) / n) in thousandths, for n up to 4; with n = 0
\* the quotient is 0 / 0 and the cosine is NaN.
CosOfTurns(i, n) ==
  IF n = 0 THEN NaN
  ELSE IF n = 1 THEN Finite(1000)
  ELSE IF n = 2 THEN (IF i % 2 = 0 THEN Finite(1000) ELSE Finite(0 - 1000))
  ELSE IF n = 3 THEN (IF i % 3 = 0 THEN Finite(1000) ELSE Finite(0 - 500))
  ELSE IF i % 4 = 0 THEN Finite(1000)
  ELSE IF i % 4 = 2 THEN Finite(0 - 1000)
  ELSE Finite(0)

WindowTypes == {"hamming", "hanning", "rectangular"}

\* The factor of sample i (from 0) of N under a window type.
WindowFactor(type, i, N) ==
  IF type = "hamming"
  THEN NumMinus(Finite(540), NumTimes(Finite(460), CosOfTurns(i, N - 1)))
  ELSE NumTimes(Finite(500), NumMinus(Finite(1000), CosOfTurns(i, N - 1)))

\* Signal.applyWindow: a type without a case leaves the window data at the
\* zeros of its allocation; a failure of the constructor is rethrown as a
\* computation error that wraps it.
applyWindow(signal, type) ==
  LET Catch(r) ==
        IF r.ok THEN r
        ELSE Fail(SimulationError(<<"Failed to apply window">>, "computation", r.err))
      windowData ==
        [i \in 1..signal.length |->
           IF type \in {"hamming", "hanning"}
           THEN NumTimes(signal.data[i], WindowFactor(type, i - 1, signal.length))
           ELSE Finite(0)]
  IN  Catch(SignalData(windowData, signal.sampleRate))

\* signal.fft()
Fft(signal) ==
  /\ ~sift.active
  /\ call' = [op |-> "fft", signal |-> signal]
  /\ outcome' = Outcome(fft(signal.data))
  /\ UNCHANGED <<workspaceVars, heapVars, sift>>

\* signal.getSpectrum()
GetSpectrum(signal) ==
  /\ ~sift.active
  /\ call' = [op |-> "getSpectrum", signal |-> signal]
  /\ outcome' = Outcome(getSpectrum(signal.data))
  /\ UNCHANGED <<workspaceVars, heapVars, sift>>

\* signal.applyWindow({type})
ApplyWindow(signal, type) ==
  /\ ~sift.active
  /\ call' = [op |-> "applyWindow", signal |-> signal, type |-> type]
  /\ outcome' = Outcome(applyWindow(signal, type))
  /\ UNCHANGED <<workspaceVars, heapVars, sift>>

-----------------------------------------------------------------------------
(* Signal.generateChirp and Signal.waveletTransform called directly.       *)

StartFreqKey == <<"s", "t", "a", "r", "t", "F", "r", "e", "q">>

EndFreqKey == <<"e", "n", "d", "F", "r", "e", "q">>

DurationKey == <<"d", "u", "r", "a", "t", "i", "o", "n">>

SampleRateKey == <<"s", "a", "m", "p", "l", "e", "R", "a", "t", "e">>

ExponentialText == <<"e", "x", "p", "o", "n", "e", "n", "t", "i", "a", "l">>

\* The options objects handed to generateChirp: frequencies 0, 1 or 2, a
\* duration of 0 or 1, the sample rate 2, and a method or none.
ChirpOptions ==
  {JsonV(JObj(<<StartFreqKey, EndFreqKey, DurationKey, SampleRateKey>> \o methodKey,
              <<JNum(Finite(startFreq * 1000)), JNum(Finite(endFreq * 1000)),
                JNum(Finite(duration * 1000)), JNum(Finite(2000))>> \o method)) :
     startFreq \in 0..2, endFreq \in 0..2, duration \in 0..1,
     methodKey \in {<<MethodKey>>}, method \in {<<JStr(LinearText)>>, <<JStr(ExponentialText)>>}}
  \cup
  {JsonV(JObj(<<StartFreqKey, EndFreqKey, DurationKey, SampleRateKey>>,
              <<JNum(Finite(startFreq * 1000)), JNum(Finite(endFreq * 1000)),
                JNum(Finite(duration * 1000)), JNum(Finite(2000))>>)) :
     startFreq \in 0..2, endFreq \in 0..2, duration \in 0..1}

\* Signal.generateChirp(options)
GenerateChirp(options) ==
  /\ ~sift.active
  /\ call' = [op |-> "generateChirp", options |-> options]
  /\ outcome' = Outcome(generateChirp(TRUE, options))
  /\ UNCHANGED <<workspaceVars, heapVars, sift>>

WaveletTypes == {"morlet", "mexican", "paul"}

\* Signal.waveletTransform: the coefficients are one Float64Array of N sums
\* per scale (the sums are not computed), handed to the Matrix constructor
\* as its rows.
waveletTransform(signal, wavelet, scales) ==
  MatrixNew(TRUE, JArr([i \in 1..scales |->
                          [t |-> "Float64Array", length |-> signal.length]]))

\* signal.waveletTransform({wavelet, scales})
WaveletTransform(signal, wavelet, scales) ==
  /\ ~sift.active
  /\ call' = [op |-> "waveletTransform", signal |-> signal, wavelet |-> wavelet,
               scales |-> scales]
  /\ outcome' = Outcome(waveletTransform(signal, wavelet, scales))
  /\ UNCHANGED <<workspaceVars, heapVars, sift>>

-----------------------------------------------------------------------------
(* Signal.decompose, one pass of its sifting loop at a time.               *)

\* a < b and a > b on numbers that are finite or NaN: false with a NaN.
NumLess(a, b) == ~a.nan /\ ~b.nan /\ a.milli < b.milli

\* (a + b) / 2 on numbers that are finite or NaN, to the thousandth.
NumMean(a, b) == IF a.nan \/ b.nan THEN NaN ELSE Finite((a.milli + b.milli) \div 2)

RECURSIVE SumOf(_)
SumOf(f) ==
  IF DOMAIN f = {} THEN 0
  ELSE LET x == CHOOSE x \in DOMAIN f : TRUE
       IN  f[x] + SumOf([y \in DOMAIN f \ {x} |-> f[y]])

\* The first loop of Signal.computeEnvelope: the indices of the strict
\* interior maxima, or minima, of the data.
Extrema(data, type) ==
  {i \in 2..(Len(data) - 1) :
     IF type = "max"
     THEN NumLess(data[i - 1], data[i]) /\ NumLess(data[i + 1], data[i])
     ELSE NumLess(data[i], data[i - 1]) /\ NumLess(data[i], data[i + 1])}

\* Signal.computeEnvelope: at each index the mean of the extrema's values
\* weighted by 1 / distance^2.  With no extremum the mean is 0 / 0; at the
\* index of an extremum the weight is Infinity and the mean is
\* Infinity / Infinity (or has a NaN numerator): NaN in both cases.
\* Elsewhere the mean is finite, kept to the thousandth.
computeEnvelope(data, type) ==
  LET \* 3600 / distance^2: the weights on a common scale
      weight(i, idx) == 3600 \div ((i - idx) * (i - idx))
      Envelope(extrema) ==
        [i \in 1..Len(data) |->
           IF extrema = {} \/ i \in extrema THEN NaN
           ELSE Finite(SumOf([idx \in extrema |-> data[idx].milli * weight(i, idx)])
                       \div SumOf([idx \in extrema |-> weight(i, idx)]))]
  IN  Envelope(Extrema(data, type))

\* Signal.checkIMFCriterion: Math.sqrt(sum of squared differences) < 0.05,
\* which is false when a difference is NaN.
checkIMFCriterion(current, previous) ==
  /\ \A i \in 1..Len(current) : ~current[i].nan /\ ~previous[i].nan
  /\ SumOf([i \in 1..Len(current) |->
              (current[i].milli - previous[i].milli)
                * (current[i].milli - previous[i].milli)]) < 2500

\* The body of the do-while loop: the data less the mean of its envelopes.
SiftOnce(imf) ==
  LET Subtract(maxEnv, minEnv) ==
        [i \in 1..Len(imf) |-> NumMinus(imf[i], NumMean(maxEnv[i], minEnv[i]))]
  IN  Subtract(computeEnvelope(imf, "max"), computeEnvelope(imf, "min"))

DecomposeMethods == {"emd", "ssa"}

\* signal.decompose({method, numModes}) is entered: up to the first pass of
\* the sifting loop.
Decompose(signal, method, numModes) ==
  /\ ~sift.active
  /\ call' = [op |-> "decompose", signal |-> signal, method |-> method,
               numModes |-> numModes]
  /\ outcome' = [status |-> "running"]
  /\ sift' = [active |-> TRUE, signal |-> signal, method |-> method,
               numModes |-> numModes, k |-> 0, residual |-> signal.data,
               imf |-> signal.data, modes |-> <<>>, pass |-> 0]
  /\ UNCHANGED <<workspaceVars, heapVars>>

\* One pass of the do-while loop of mode k and, when the criterion ends the
\* loop, the statements after it: the mode is pushed as a new Signal (whose
\* constructor may throw), the residual reduced, and k incremented.  `pass`
\* is the parity of the passes made, which tells a pass from the next.
SiftStep ==
  /\ sift.active /\ sift.method = "emd" /\ sift.k < sift.numModes
  /\ \E imf \in {SiftOnce(sift.imf)} :
       IF ~checkIMFCriterion(imf, sift.imf)
       THEN /\ sift' = [sift EXCEPT !.imf = imf, !.pass = 1 - @]
            /\ UNCHANGED outcome
       ELSE \E mode \in {SignalData(imf, sift.signal.sampleRate)} :
              IF ~mode.ok
              THEN /\ sift' = NoSift
                   /\ outcome' = Outcome(mode)
              ELSE \E residual \in {[i \in 1..Len(imf) |-> NumMinus(sift.residual[i], imf[i])]} :
                     /\ sift' = [sift EXCEPT !.modes = Append(@, mode.val),
                                              !.residual = residual, !.imf = residual,
                                              !.k = @ + 1, !.pass = 1 - @]
                     /\ UNCHANGED outcome
  /\ UNCHANGED <<workspaceVars, heapVars, call>>

\* The return statement of decompose: the payload is the empty array.
DecomposeReturn ==
  /\ sift.active /\ (sift.method # "emd" \/ sift.k >= sift.numModes)
  /\ outcome' = [status |-> "returned", value |-> <<>>]
  /\ sift' = NoSift
  /\ UNCHANGED <<workspaceVars, heapVars, call>>

-----------------------------------------------------------------------------
(* The constructors called directly.                                       *)

\* A constructor is handed at most this many samples.
MaxGiven == 2

\* The arrays handed to the Matrix constructor: up to MaxDim rows, each an
\* array of up to MaxDim numbers.
GridRows == UNION {[1..c -> {JNum(Finite(1000))}] : c \in 0..MaxDim}

GridInputs == UNION {{JArr([i \in 1..r |-> JArr(rows[i])]) : rows \in [1..r -> GridRows]} :
                       r \in 0..MaxDim}

\* new Matrix(data), or new Matrix() when `given` is FALSE
NewMatrix(given, data) ==
  /\ ~sift.active
  /\ call' = [op |-> "newMatrix", given |-> given, data |-> data]
  /\ outcome' = Outcome(MatrixNew(given, data))
  /\ UNCHANGED <<workspaceVars, heapVars, sift>>

\* The arrays handed to the Signal constructor: up to MaxGiven samples, each
\* a finite number, NaN or an infinity.
SampleInputs == UNION {[1..n -> {Finite(0), NaN, Infinite}] : n \in 0..MaxGiven}

\* new Signal(data)
NewSignal(data) ==
  /\ ~sift.active
  /\ call' = [op |-> "newSignal", data |-> data]
  /\ outcome' = Outcome(SignalData(data, Finite(ConstructorSampleRate * 1000)))
  /\ UNCHANGED <<workspaceVars, heapVars, sift>>

-----------------------------------------------------------------------------
(* The library specification: calls on Matrix and Signal values, one at a  *)
(* time; a call that has been entered keeps running.                       *)

LibNext ==
  \/ \E data \in GridInputs : NewMatrix(TRUE, data)
  \/ NewMatrix(FALSE, JLit("undefined"))
  \/ \E data \in SampleInputs : NewSignal(data)
  \/ \E this \in Matrices, other \in Matrices : Multiply(this, other)
  \/ \E signal \in Signals : Fft(signal)
  \/ \E signal \in Signals : GetSpectrum(signal)
  \/ \E signal \in Signals, type \in WindowTypes : ApplyWindow(signal, type)
  \/ \E options \in ChirpOptions : GenerateChirp(options)
  \/ \E signal \in Signals, wavelet \in WaveletTypes, scales \in 0..MaxScales :
       WaveletTransform(signal, wavelet, scales)
  \/ \E signal \in Signals, method \in DecomposeMethods, numModes \in 0..MaxModes :
       Decompose(signal, method, numModes)
  \/ SiftStep
  \/ DecomposeReturn

LibSpec == Init /\ [][LibNext]_vars /\ WF_vars(SiftStep) /\ WF_vars(DecomposeReturn)


-----------------------------------------------------------------------------
(* The second variant of the Matrix class: a grid of numbers with set,     *)
(* add, multiply and transpose.  A grid is a sequence of rows, a row a     *)
(* sequence of whole numbers, small enough for the arithmetic of the code  *)
(* on them to be exact.  Its errors are plain Errors.                      *)

\* At most this many Matrix objects are constructed.
MaxMatrices == 3

\* Matrix.validateData (second variant) on an array of arrays.
validateData(data) ==
  IF data = <<>> THEN Fail(HostError(<<"Invalid matrix data">>))
  ELSE IF \E i \in 1..Len(data) : Len(data[i]) # Len(data[1])
    THEN Fail(HostError(<<"All rows must have the same length">>))
  ELSE Ok(data)

getRows(grid) == Len(grid)

getCols(grid) == Len(grid[1])

\* The sum of RowByColumn as it would be if it started from 1.
RECURSIVE RowByColumnFromOne(_, _, _, _, _)
RowByColumnFromOne(this, other, i, j, p) ==
  IF p = 0 THEN 1
  ELSE RowByColumnFromOne(this, other, i, j, p - 1) + this[i][p] * other[p][j]

\* sum += this.get(i, k) * other.get(k, j), for k up to p
RECURSIVE RowByColumn(_, _, _, _, _)
RowByColumn(this, other, i, j, p) ==
  IF p = 0 THEN 0
  ELSE RowByColumn(this, other, i, j, p - 1) + this[i][p] * other[p][j]

\* Matrix.transpose on the receiver's grid: the grid of the new Matrix, or
\* the error of its constructor.
transpose(this) ==
  validateData([j \in 1..getCols(this) |-> [i \in 1..getRows(this) |-> this[i][j]]])

\* Matrix.add on the grids of the receiver and the argument.
add(this, other) ==
  IF getRows(this) # getRows(other) \/ getCols(this) # getCols(other)
  THEN Fail(HostError(<<"Matrix dimensions must match">>))
  ELSE validateData([i \in 1..getRows(this) |->
                       [j \in 1..getCols(this) |-> this[i][j] + other[i][j]]])

\* Matrix.multiply on the receiver's grid and an argument that is a number
\* or the grid of a Matrix.
multiply(this, other) ==
  IF other.kind = "number"
  THEN validateData([i \in 1..getRows(this) |->
                       [j \in 1..getCols(this) |-> this[i][j] * other.num]])
  ELSE IF getCols(this) # getRows(other.grid)
    THEN Fail(HostError(<<"Invalid matrix dimensions for multiplication">>))
  ELSE validateData([i \in 1..getRows(this) |->
                       [j \in 1..getCols(other.grid) |->
                          RowByColumn(this, other.grid, i, j, getCols(this))]])

\* The grid an object holds: its rows read through their addresses.
GridOf(rs, data) == [i \in 1..Len(data) |-> rs[data[i]]]

\* The heap as a call leaves it: unchanged when the call throws.
Threw(e, rs, ms) == [ok |-> FALSE, err |-> e, rowArrays |-> rs, matrices |-> ms]

\* The Matrix constructor (second variant) on a validated grid: each row is
\* copied into a new array, and the object holds the addresses of the copies.
Construct(made, rs, ms) ==
  IF ~made.ok THEN Threw(made.err, rs, ms)
  ELSE [ok |-> TRUE, result |-> Len(ms) + 1, rowArrays |-> rs \o made.val,
        matrices |-> Append(ms, [i \in 1..Len(made.val) |-> Len(rs) + i])]

\* add as it would be if it summed into the receiver's rows and returned
\* the receiver.
MatrixAddInPlace(rs, ms, this, other) ==
  LET Store(sum) ==
        IF ~sum.ok THEN Threw(sum.err, rs, ms)
        ELSE [ok |-> TRUE, result |-> this, matrices |-> ms,
              rowArrays |-> [a \in 1..Len(rs) |->
                               IF \E i \in 1..Len(ms[this]) : ms[this][i] = a
                               THEN sum.val[CHOOSE i \in 1..Len(ms[this]) : ms[this][i] = a]
                               ELSE rs[a]]]
  IN  Store(add(GridOf(rs, ms[this]), GridOf(rs, ms[other])))

\* this.add(other) on objects of the heap
MatrixAdd(rs, ms, this, other) ==
  Construct(add(GridOf(rs, ms[this]), GridOf(rs, ms[other])), rs, ms)

\* this.multiply(other) on objects of the heap; `other` is an object or,
\* when scalar, a number
MatrixTimes(rs, ms, this, other, scalar) ==
  Construct(multiply(GridOf(rs, ms[this]),
                     IF scalar THEN [kind |-> "number", num |-> other]
                     ELSE [kind |-> "Matrix", grid |-> GridOf(rs, ms[other])]),
            rs, ms)

\* this.transpose() on an object of the heap
MatrixTranspose(rs, ms, this) == Construct(transpose(GridOf(rs, ms[this])), rs, ms)

\* this.set(i, j, value), with i and j counted from 0: the entry is written
\* in the row array the object holds.
MatrixSet(rs, ms, this, i, j, value) ==
  IF i < 0 \/ i >= Len(ms[this]) \/ j < 0 \/ j >= Len(rs[ms[this][1]])
  THEN Threw(HostError(<<"Index out of bounds">>), rs, ms)
  ELSE [ok |-> TRUE, result |-> 0, matrices |-> ms,
        rowArrays |-> [rs EXCEPT ![ms[this][i + 1]][j + 1] = value]]

\* The grids handed to the constructor.
GridChoices ==
  {<<>>, <<<<>>>>, <<<<1>>, <<1, 2>>>>, <<<<1, 2>>>>, <<<<1, 2>>, <<0, 1>>>>}

\* A call on the heap is made and ends: what it returned (the object made,
\* 0 when nothing is returned) or threw, and the heap it left.
Ends(made, ended) ==
  /\ call' = made
  /\ outcome' = IF ended.ok THEN [status |-> "returned", value |-> ended.result]
                 ELSE [status |-> "thrown", err |-> ended.err]
  /\ rowArrays' = ended.rowArrays
  /\ matrices' = ended.matrices
  /\ UNCHANGED <<workspaceVars, sift>>

\* new Matrix(data)
ConstructMatrix(data) ==
  /\ Len(matrices) < MaxMatrices
  /\ Ends([op |-> "new", data |-> data], Construct(validateData(data), rowArrays, matrices))

\* this.add(other)
Add(this, other) ==
  /\ Len(matrices) < MaxMatrices
  /\ Ends([op |-> "add", this |-> this, other |-> other],
          MatrixAdd(rowArrays, matrices, this, other))

\* this.multiply(other) with a Matrix
Times(this, other) ==
  /\ Len(matrices) < MaxMatrices
  /\ Ends([op |-> "multiply", this |-> this, other |-> other, scalar |-> FALSE],
          MatrixTimes(rowArrays, matrices, this, other, FALSE))

\* this.multiply(other) with a number
Scale(this, other) ==
  /\ Len(matrices) < MaxMatrices
  /\ Ends([op |-> "multiply", this |-> this, other |-> other, scalar |-> TRUE],
          MatrixTimes(rowArrays, matrices, this, other, TRUE))

\* this.transpose()
Transpose(this) ==
  /\ Len(matrices) < MaxMatrices
  /\ Ends([op |-> "transpose", this |-> this], MatrixTranspose(rowArrays, matrices, this))

\* this.set(i, j, value)
Set(this, i, j, value) ==
  Ends([op |-> "set", this |-> this, i |-> i, j |-> j, value |-> value],
       MatrixSet(rowArrays, matrices, this, i, j, value))

MatrixNext ==
  \/ \E data \in GridChoices : ConstructMatrix(data)
  \/ \E this \in 1..Len(matrices), other \in 1..Len(matrices) : Add(this, other)
  \/ \E this \in 1..Len(matrices), other \in 1..Len(matrices) : Times(this, other)
  \/ \E this \in 1..Len(matrices) : Scale(this, 2)
  \/ \E this \in 1..Len(matrices) : Transpose(this)
  \/ \E this \in 1..Len(matrices), i \in {0, MaxDim} : Set(this, i, 0, 3)

MatrixSpec == Init /\ [][MatrixNext]_vars

-----------------------------------------------------------------------------
(* The reading of a source text that the properties below are stated on:   *)
(* its statements in source order, and a line-by-line run of them.         *)

\* A line execute discards: empty after trimming, or beginning a comment.
IsDiscarded(line) == Trim(line) = <<>> \/ StartsWith(Trim(line), <<"/", "/">>)

\* The statements of a source text, in source order, without their comments.
Statements(code) ==
  LET kept == SelectSeq(Split(code, "\n"), LAMBDA line : ~IsDiscarded(line))
  IN  [i \in 1..Len(kept) |-> removeInlineComments(kept[i])]

\* Running statements i.. one by one, each in the environment its
\* predecessors left: the environment reached, the non-empty results in
\* order, and the index and error of the first statement that fails (0 when
\* none does).
RECURSIVE RunFrom(_, _, _, _)
RunFrom(vs, stmts, i, outs) ==
  IF i > Len(stmts) THEN [env |-> vs, outs |-> outs, failed |-> 0, err |-> NoCause]
  ELSE
    LET r == executeLine(vs, stmts[i])
    IN  IF ~r.ok THEN [env |-> vs, outs |-> outs, failed |-> i, err |-> r.err]
        ELSE RunFrom(r.variables, stmts, i + 1,
                     IF r.text # <<>> THEN Append(outs, r.text) ELSE outs)

Run(vs, code) == RunFrom(vs, Statements(code), 1, <<>>)

\* The innermost error of a chain of causes.
RECURSIVE RootCause(_)
RootCause(e) == IF e.cause = NoCause THEN e ELSE RootCause(e.cause)

\* A text with its trailing whitespace removed.
TrimEnd(s) ==
  LET keep == {i \in 1..Len(s) : ~IsSpace(s[i])}
  IN  IF keep = {} THEN <<>> ELSE SubSeq(s, 1, Max(keep))

IsAssignment(stmt) == Includes(stmt, <<"=">>)

\* The two sides of an assignment statement, trimmed.
LeftSide(stmt) == Trim(SubSeq(stmt, 1, IndexOf(stmt, <<"=">>)))

RightSide(stmt) == Trim(SubSeq(stmt, IndexOf(stmt, <<"=">>) + 2, Len(stmt)))

NameA == <<"a">>

NameB == <<"b">>

-----------------------------------------------------------------------------
(* C1 *)

\* C1: when a line of an execute call fails, the call throws an error and
\* returns no text, the environment is the one the lines before the failing
\* line left (each name they assigned is bound), and no later line has run.
C1_LineAtomic ==
  [][\A stmts \in {Statements(lastCode')} :
       \A run \in {RunFrom(variables, stmts, 1, <<>>)} :
         run.failed > 0 =>
           /\ lastResult'.status = "thrown"
           /\ lastResult'.text = <<>>
           /\ lastResult'.err # NoCause
           /\ variables' = run.env
           /\ \A i \in 1..(run.failed - 1) :
                IsAssignment(stmts[i]) => MapHas(variables', LeftSide(stmts[i]))]_vars

\* A call "a = 0 / badExpr(" has thrown and a is bound to 0.
C1_Witness ==
  /\ lastCode = Code(<<LineAssignZero, LineBadExpr>>)
  /\ lastResult.status = "thrown"
  /\ getValue(NameA) = NumV(Finite(0))

-----------------------------------------------------------------------------
(* C2 *)

\* C2: whatever execute calls were made, every built-in name is still bound
\* to the function registered at construction.
C2_BuiltinsNeverOverwritten ==
  \A n \in BuiltinNames : MapHas(variables, n) /\ variables[n] = registerBuiltins[n]

-----------------------------------------------------------------------------
(* C3 *)

\* Inline comments put after a statement.
CommentTails ==
  {<<" ", "/", "/", " ", "c">>, <<" ", "/", "/">>, <<" ", "/", "/", " ", "x", " ", "=", " ", "1">>}

\* The catalogue lines that hold no comment marker.
PlainLines == {line \in Catalogue : ~Includes(line, <<"/", "/">>)}

\* C3: from every reachable Workspace state, executing a line followed by an
\* inline comment gives what executing the line alone gives: the same
\* returned text or thrown error, and the same bindings.
C3_CommentStripping ==
  \A line \in PlainLines : \A tail \in CommentTails :
    LET with    == execute(variables, history, line \o tail)
        without == execute(variables, history, line)
    IN  /\ with.ok = without.ok
        /\ with.text = without.text
        /\ with.err = without.err
        /\ with.variables = without.variables

\* A call of the commented line "b = a // c" has returned "b = 0".
C3_Witness ==
  /\ lastCode = Code(<<LineCopy>>)
  /\ lastResult.status = "returned"
  /\ lastResult.text = <<"b", " ", "=", " ", "0">>
  /\ getValue(NameB) = NumV(Finite(0))

-----------------------------------------------------------------------------
(* C4 *)

\* Is error x the error e or one of its causes?
RECURSIVE InChain(_, _)
InChain(x, e) == e # NoCause /\ (e = x \/ InChain(x, e.cause))

\* C4: when a line of an execute call fails, whatever the kind of the
\* failure, the error thrown is of type runtime, its message holds the text
\* of the failing statement (the line without its inline comment) and the
\* message of the failure, the failure is in its chain of causes, and the
\* environment is the one the failing line found: no later line has run.
C4_FailureIsRuntime ==
  [][\A stmts \in {Statements(lastCode')} :
       \A run \in {RunFrom(variables, stmts, 1, <<>>)} :
         run.failed > 0 =>
           \A stmt \in {stmts[run.failed]} :
             \A cause \in {LineBody(run.env, stmt).err} :
               \A thrown \in {lastResult'.err} :
                 /\ lastResult'.status = "thrown"
                 /\ thrown.type = "runtime"
                 /\ IsInfix(stmt, thrown.msg)
                 /\ IsInfix(cause.msg, thrown.msg)
                 /\ cause.type # "runtime"
                 /\ InChain(cause, thrown)
                 /\ variables' = run.env]_vars

\* A call whose line failed with an exception that carries no classification
\* (chirp() called without options) has thrown a runtime error.
C4_Witness ==
  /\ lastCode = Code(<<LineAssignZero, LineChirpNoArgs>>)
  /\ lastResult.status = "thrown"
  /\ lastResult.err.type = "runtime"
  /\ RootCause(lastResult.err).type = "unclassified"

-----------------------------------------------------------------------------
(* C5 *)

\* C5: when every line of an execute call succeeds, the call returns the
\* non-empty results of its statements, run one by one in source order each
\* in the environment the earlier ones left, joined by line breaks, without
\* trailing whitespace; the environment is the one the last statement left;
\* blank lines and comment lines are no statements.
C5_ResultsInOrder ==
  [][\A run \in {Run(variables, lastCode')} :
         run.failed = 0 =>
           /\ lastResult'.status = "returned"
           /\ lastResult'.text = TrimEnd(Join(run.outs, <<"\n">>))
           /\ variables' = run.env
           /\ \A line \in {LineBlank, LineComment} :
                /\ Statements(line) = <<>>
                /\ Statements(line \o <<"\n">> \o lastCode') = Statements(lastCode')]_vars

\* A call "a = 0 / b = a // c" has returned both results in order, the second
\* line having read the binding of the first.
C5_Witness ==
  /\ lastCode = Code(<<LineAssignZero, LineCopy>>)
  /\ lastResult.status = "returned"
  /\ lastResult.text = <<"a", " ", "=", " ", "0", "\n", "b", " ", "=", " ", "0">>

-----------------------------------------------------------------------------
(* C6 *)

\* C6: over every execute call and every name, getValue(name) after the call
\* is the value of the right side of the last assignment to the name that
\* the call ran with success, evaluated in the environment that assignment
\* found, and that assignment returned "<name> = <formatted value>"; a name
\* the call did not assign keeps the binding (or the absence of one) it had
\* before the call.
C6_LastAssignmentWins ==
  [][\A stmts \in {Statements(lastCode')} :
       \A run \in {RunFrom(variables, stmts, 1, <<>>)} :
         \A done \in {IF run.failed = 0 THEN Len(stmts) ELSE run.failed - 1} :
           \A n \in DOMAIN variables \cup DOMAIN variables'
                      \cup {LeftSide(stmts[i]) : i \in {j \in 1..done : IsAssignment(stmts[j])}} :
             \A idx \in {{i \in 1..done : IsAssignment(stmts[i]) /\ LeftSide(stmts[i]) = n}} :
               IF idx = {}
               THEN getValue(n)' = getValue(n)
               ELSE
                 \A before \in {RunFrom(variables, SubSeq(stmts, 1, Max(idx) - 1), 1, <<>>).env} :
                   \A value \in {evaluateExpression(before, RightSide(stmts[Max(idx)]))} :
                     /\ value.ok
                     /\ getValue(n)' = value.val
                     /\ executeLine(before, stmts[Max(idx)]).text
                          = n \o <<" ", "=", " ">> \o formatOutput(value.val)]_vars

\* After "a = 0" in one call and "a = 2" in the next, a is bound to 2.
C6_Witness ==
  /\ history = <<LineAssignZero, LineAssignTwo>>
  /\ lastCode = Code(<<LineAssignTwo>>)
  /\ lastResult.text = <<"a", " ", "=", " ", "2">>
  /\ getValue(NameA) = NumV(Finite(2000))

-----------------------------------------------------------------------------
(* C7 *)

\* An assignment statement with an empty left or right side.
HasEmptySide(stmt) == IsAssignment(stmt) /\ (LeftSide(stmt) = <<>> \/ RightSide(stmt) = <<>>)

\* C7: when an execute call reaches an assignment whose left or right side
\* is empty, the call throws there, the failure at the root of the error
\* thrown is the validation error "Invalid assignment", and the environment
\* is the one the statement found.
C7_InvalidAssignment ==
  [][\A stmts \in {Statements(lastCode')} :
       \A run \in {RunFrom(variables, stmts, 1, <<>>)} :
         \A k \in 1..Len(stmts) :
           (HasEmptySide(stmts[k]) /\ (run.failed = 0 \/ run.failed >= k)) =>
             /\ run.failed = k
             /\ lastResult'.status = "thrown"
             /\ RootCause(lastResult'.err).type = "validation"
             /\ RootCause(lastResult'.err).msg = <<"Invalid assignment">>
             /\ variables' = run.env
             /\ (k = 1 => variables' = variables)]_vars

\* A call "a = 0 / x =" has thrown "Invalid assignment"; a is bound, x is not.
C7_Witness ==
  /\ lastCode = Code(<<LineAssignZero, LineNoValue>>)
  /\ lastResult.status = "thrown"
  /\ RootCause(lastResult.err).msg = <<"Invalid assignment">>
  /\ MapHas(variables, NameA)
  /\ ~MapHas(variables, <<"x">>)

-----------------------------------------------------------------------------
(* C8 *)

\* C8: after "m = matrix([[1,2],[3,4]])" and "t = m.transpose()" in one
\* call, the call has returned and t is bound to a Matrix.
C8_MethodCall ==
  lastCode = Code(<<LineMatrix, LineMethod>>) =>
    /\ lastResult.status = "returned"
    /\ MapHas(variables, <<"t">>)
    /\ variables[<<"t">>].kind = "Matrix"

-----------------------------------------------------------------------------
(* C9 *)

InnerCall == <<"s", "i", "n", "e", "(", "1", ",", " ", "2", ")">>

\* C9: when the call "y = sine(sine(1, 2), 3)" has been made while sine is
\* the built-in, the argument text "sine(1, 2), 3" parses to exactly two
\* arguments, the first being the value of the call sine(1, 2), and the call
\* has not failed on its parentheses.
C9_TopLevelCommas ==
  (lastCode = Code(<<LineNested>>) /\ variables[SineName] = FnV("sine")) =>
    \A args \in {parseArguments(variables, InnerCall \o <<",", " ", "3">>, SineName)} :
      \A inner \in {evaluateExpression(variables, InnerCall)} :
        /\ inner.ok
        /\ args.ok
        /\ Len(args.val) = 2
        /\ args.val[1] = inner.val
        /\ RootCause(lastResult.err).msg # <<"Unmatched parentheses">>

-----------------------------------------------------------------------------
(* C10 *)

\* Expressions without a parenthesis that are put to evaluateExpression,
\* besides the names bound.
Probes ==
  {<<"q">>, NameA, NameB, <<"s">>, <<"a", ".", "b">>, <<"a", " ", "b">>, InfinityText,
   <<"0">>, <<"1", ".", "5">>}

CannotEvaluate(expr) ==
  Fail(SimulationError(<<"Cannot evaluate expression: '">> \o expr \o <<"'">>,
                       "validation", NoCause))

\* C10 as stated: an expression without "(" that is no number and no bound
\* name fails with the validation error "Cannot evaluate expression", and
\* every bound name evaluates to its bound value.
C10_BoundNameEvaluates ==
  \A expr \in Probes \cup DOMAIN variables :
    ~Includes(expr, <<"(">>) =>
      /\ (MapHas(variables, expr) => evaluateExpression(variables, expr) = Ok(variables[expr]))
      /\ (~MapHas(variables, expr) /\ Number(expr).nan
            => evaluateExpression(variables, expr) = CannotEvaluate(expr))

\* C10, amended: an expression without "(" that is no number and no bound
\* name fails with the validation error "Cannot evaluate expression", and
\* every bound name that is not itself read as a number evaluates to its
\* bound value, the number 0 included.
C10_BoundNonNumericNameEvaluates ==
  \A expr \in Probes \cup DOMAIN variables :
    (~Includes(expr, <<"(">>) /\ Number(expr).nan) =>
      IF MapHas(variables, expr)
      THEN evaluateExpression(variables, expr) = Ok(variables[expr])
      ELSE evaluateExpression(variables, expr) = CannotEvaluate(expr)

\* A call "a = 0 / a" has returned "0" for the name bound to the number 0.
C10_Witness ==
  /\ lastCode = Code(<<LineAssignZero, LineBare>>)
  /\ lastResult.status = "returned"
  /\ lastResult.text = <<"a", " ", "=", " ", "0", "\n", "0">>
  /\ evaluateExpression(variables, NameA) = Ok(NumV(Finite(0)))

-----------------------------------------------------------------------------
(* C11 *)

\* The text between the parentheses of a statement "<name> = matrix(<text>)".
IsMatrixAssignment(stmt) ==
  /\ IsAssignment(stmt)
  /\ StartsWith(RightSide(stmt), MatrixName \o <<"(">>)
  /\ RightSide(stmt)[Len(RightSide(stmt))] = ")"

MatrixLiteral(stmt) == SubSeq(RightSide(stmt), 8, Len(RightSide(stmt)) - 1)

\* A literal that deserializes to rows of numbers, all of one length.
WellFormedRows(text) ==
  \A parsed \in {JsonParse(StripSpace(text))} :
    /\ parsed.ok
    /\ parsed.val.t = "arr"
    /\ parsed.val.items # <<>>
    /\ \A i \in 1..Len(parsed.val.items) :
         /\ parsed.val.items[i].t = "arr"
         /\ Len(parsed.val.items[i].items) = Len(parsed.val.items[1].items)
         /\ \A j \in 1..Len(parsed.val.items[i].items) :
              parsed.val.items[i].items[j].t = "num"

\* C11: a call of the one statement "<name> = matrix(<literal>)", made while
\* matrix is the built-in, returns and binds the name to a Matrix when the
\* literal is rows of numbers of equal length; otherwise it throws, the
\* failure at the root is the validation error "Invalid matrix data format",
\* and the environment is unchanged.
C11_MatrixLiteral ==
  [][\A stmts \in {Statements(lastCode')} :
       (/\ Len(stmts) = 1
        /\ IsMatrixAssignment(stmts[1])
        /\ variables[MatrixName] = FnV("matrix")) =>
         IF WellFormedRows(MatrixLiteral(stmts[1]))
         THEN /\ lastResult'.status = "returned"
              /\ MapHas(variables', LeftSide(stmts[1]))
              /\ variables'[LeftSide(stmts[1])].kind = "Matrix"
         ELSE /\ lastResult'.status = "thrown"
              /\ RootCause(lastResult'.err).type = "validation"
              /\ RootCause(lastResult'.err).msg = <<"Invalid matrix data format">>
              /\ variables' = variables]_vars

-----------------------------------------------------------------------------
(* C12 *)

IsSineAssignment(stmt) ==
  /\ IsAssignment(stmt)
  /\ LeftSide(stmt) # <<>>
  /\ StartsWith(RightSide(stmt), SineName \o <<"(">>)
  /\ RightSide(stmt)[Len(RightSide(stmt))] = ")"

\* The arguments of "<name> = sine(<arguments>)", each read as a number.
SineNumbers(stmt) ==
  LET texts == Split(SubSeq(RightSide(stmt), 6, Len(RightSide(stmt)) - 1), ",")
  IN  [i \in 1..Len(texts) |-> Number(texts[i])]

IsFiniteNumber(n) == ~n.nan /\ ~n.inf

\* C12: a call of the one statement "<name> = sine(f, d)" or
\* "<name> = sine(f, d, r)" with finite numbers f, d and a whole rate r, made
\* while sine is the built-in, returns, and the name is then bound to a
\* Signal itself whose sample count is floor(d * rate), with rate 44100 when
\* r is omitted and r otherwise, and whose time axis has one entry per
\* sample.
C12_SineSampleCount ==
  [][\A stmts \in {Statements(lastCode')} :
       (/\ Len(stmts) = 1
        /\ IsSineAssignment(stmts[1])
        /\ variables[SineName] = FnV("sine")) =>
         \A args \in {SineNumbers(stmts[1])} :
           (/\ Len(args) \in {2, 3}
            /\ \A i \in 1..Len(args) : IsFiniteNumber(args[i])
            /\ Len(args) = 3 => args[3].milli % 1000 = 0) =>
             \A rate \in {IF Len(args) = 3 THEN args[3].milli \div 1000 ELSE 44100} :
               /\ lastResult'.status = "returned"
               /\ MapHas(variables', LeftSide(stmts[1]))
               /\ \A x \in {variables'[LeftSide(stmts[1])]} :
                    /\ x.kind = "Signal"
                    /\ x.length * 1000 <= args[2].milli * rate
                    /\ args[2].milli * rate < (x.length + 1) * 1000
                    /\ x.sampleRate = Finite(rate * 1000)
                    /\ Len(getTimeArray(x)) = x.length]_vars

\* A call "d = sine(1, 0.001)" has returned; d is a Signal of
\* floor(0.001 * 44100) = 44 samples at the rate 44100.
C12_Witness ==
  /\ lastCode = Code(<<LineSineDefault>>)
  /\ lastResult.status = "returned"
  /\ getValue(<<"d">>) = SigV(44, Finite(44100 * 1000), "sine")

-----------------------------------------------------------------------------
(* C13 *)

\* C13: a call of multiply whose receiver has a column count other than the
\* argument's row count has thrown, and the error thrown is classified as a
\* validation error.
C13_MultiplyMismatch ==
  (call.op = "multiply" /\ Len(call.this.data[1]) # Len(call.other.data)) =>
    /\ outcome.status = "thrown"
    /\ outcome.err.type = "validation"

-----------------------------------------------------------------------------
(* C14 *)

RECURSIVE IsPowerOfTwo(_)
IsPowerOfTwo(n) == n = 1 \/ (n > 1 /\ n % 2 = 0 /\ IsPowerOfTwo(n \div 2))

\* C14: a call of fft or getSpectrum on a Signal of N samples has returned
\* exactly N bins when N <= 1 or N is a power of two, and has otherwise
\* thrown an error classified as a validation error.
C14_FftPowerOfTwo ==
  call.op \in {"fft", "getSpectrum"} =>
    IF call.signal.length <= 1 \/ IsPowerOfTwo(call.signal.length)
    THEN outcome.status = "returned" /\ Len(outcome.value) = call.signal.length
    ELSE outcome.status = "thrown" /\ outcome.err.type = "validation"

-----------------------------------------------------------------------------
(* C15 *)

\* C15: a call of applyWindow with the type hamming or hanning on a Signal
\* of exactly one sample has returned a Signal of one sample, equal to the
\* original sample.
C15_WindowOneSample ==
  (/\ call.op = "applyWindow"
   /\ call.type \in {"hamming", "hanning"}
   /\ call.signal.length = 1) =>
    /\ outcome.status = "returned"
    /\ outcome.value.length = 1
    /\ outcome.value.data = call.signal.data

-----------------------------------------------------------------------------
(* C16 *)

\* The options name the method "exponential".
IsExponential(options) ==
  /\ HasOption(options, MethodKey)
  /\ \E i \in 1..Len(options.json.keys) :
       options.json.keys[i] = MethodKey /\ options.json.vals[i] = JStr(ExponentialText)

\* C16: a call of generateChirp with the method exponential, startFreq = 0
\* and a positive duration has thrown, and the error thrown is classified as
\* a computation error.
C16_ChirpZeroStart ==
  (/\ call.op = "generateChirp"
   /\ IsExponential(call.options)
   /\ OptionNumber(call.options, StartFreqKey) = Finite(0)
   /\ PositiveFinite(OptionNumber(call.options, DurationKey))) =>
    /\ outcome.status = "thrown"
    /\ outcome.err.type = "computation"

-----------------------------------------------------------------------------
(* C17 *)

\* C17: a call of decompose with the method emd that is running leads to
\* its return or to a thrown error.
C17_DecomposeTerminates ==
  (call.op = "decompose" /\ call.method = "emd" /\ outcome.status = "running")
    ~> (outcome.status \in {"returned", "thrown"})

-----------------------------------------------------------------------------
(* C18 *)

\* C18: a pass of the sifting loop over non-empty working data with fewer
\* than 2 local extrema ends the call with a thrown error classified as a
\* validation or a computation error.
C18_FewExtremaFail ==
  [][(/\ sift.active /\ sift.method = "emd" /\ sift.k < sift.numModes
      /\ sift.imf # <<>>
      /\ Cardinality(Extrema(sift.imf, "max") \cup Extrema(sift.imf, "min")) < 2) =>
       /\ outcome'.status = "thrown"
       /\ outcome'.err.type \in {"validation", "computation"}]_vars

-----------------------------------------------------------------------------
(* C19 *)

\* C19: a call of decompose with the method emd that has returned holds in
\* its payload exactly numModes Signals, each of the receiver's sample count.
C19_ModesPayload ==
  (call.op = "decompose" /\ call.method = "emd" /\ outcome.status = "returned") =>
    /\ Len(outcome.value) = call.numModes
    /\ \A i \in 1..Len(outcome.value) :
         /\ outcome.value[i].kind = "Signal"
         /\ outcome.value[i].length = call.signal.length

-----------------------------------------------------------------------------
(* C20 *)

\* C20: a call of waveletTransform with scales >= 1 on a Signal of at least
\* one sample has returned a Matrix of exactly `scales` rows, each as long
\* as the Signal.
C20_WaveletRows ==
  (call.op = "waveletTransform" /\ call.scales >= 1 /\ call.signal.length >= 1) =>
    /\ outcome.status = "returned"
    /\ outcome.value.kind = "Matrix"
    /\ Len(outcome.value.data) = call.scales
    /\ \A i \in 1..call.scales : Len(outcome.value.data[i]) = call.signal.length

-----------------------------------------------------------------------------
(* C21 *)

\* Rows of one length, at least one of them, with at least one column.
IsNonEmptyGrid(data) ==
  /\ data.t = "arr"
  /\ Len(data.items) >= 1
  /\ \A i \in 1..Len(data.items) :
       /\ data.items[i].t = "arr"
       /\ Len(data.items[i].items) = Len(data.items[1].items)
       /\ Len(data.items[i].items) >= 1

\* C21: a call of the Matrix constructor has returned a Matrix of at least
\* one row and one column, all rows of one length, when it was handed such
\* a grid, and has thrown an error classified as a validation error when
\* it was handed any other array or no argument.
C21_ConstructGrid ==
  call.op = "newMatrix" =>
    IF call.given /\ IsNonEmptyGrid(call.data)
    THEN /\ outcome.status = "returned"
         /\ Len(outcome.value.data) >= 1
         /\ \A i \in 1..Len(outcome.value.data) :
              /\ Len(outcome.value.data[i]) >= 1
              /\ Len(outcome.value.data[i]) = Len(outcome.value.data[1])
    ELSE /\ outcome.status = "thrown"
         /\ outcome.err.type = "validation"

-----------------------------------------------------------------------------
(* C24 *)

\* C24: a call of the Signal constructor has returned a Signal that holds
\* the samples handed to it when every one of them is a finite number, and
\* has thrown an error classified as a validation error when one of them is
\* NaN or an infinity.
C24_FiniteSamples ==
  call.op = "newSignal" =>
    IF \A i \in 1..Len(call.data) : IsFiniteNumber(call.data[i])
    THEN /\ outcome.status = "returned"
         /\ outcome.value.length = Len(call.data)
         /\ outcome.value.data = call.data
    ELSE /\ outcome.status = "thrown"
         /\ outcome.err.type = "validation"

-----------------------------------------------------------------------------
(* C26 *)

\* C26: in every environment the Workspace reaches, a line whose execution
\* fails leaves every binding as it was: after a failing "x = <expr>" the
\* name x has the value it had before the line, or is still unbound.
C26_FailingLineBindsNothing ==
  \A line \in Catalogue :
    \A r \in {executeLine(variables, removeInlineComments(line))} :
      ~r.ok =>
        /\ r.variables = variables
        /\ IsAssignment(removeInlineComments(line)) =>
             \A x \in {LeftSide(removeInlineComments(line))} :
               /\ MapHas(r.variables, x) = MapHas(variables, x)
               /\ MapHas(variables, x) => r.variables[x] = variables[x]

\* The call "s = sine(2, 1.5, 2)" then "s = sine(Infinity, 1, 2)" has thrown
\* at its second line, and s is still the Signal of 3 samples the first
\* line bound.
C26_Witness ==
  /\ lastCode = Code(<<LineSine, LineSineFails>>)
  /\ lastResult.status = "thrown"
  /\ IsInfix(LineSineFails, lastResult.err.msg)
  /\ getValue(<<"s">>) = SigV(3, Finite(2000), "sine")

-----------------------------------------------------------------------------
(* C27 *)

\* The kept lines from line i on that execute with success and a non-empty
\* result, up to the first line that fails.
RECURSIVE Recorded(_, _, _)
Recorded(vs, lines, i) ==
  IF i > Len(lines) THEN <<>>
  ELSE LET Rest(r) ==
             IF ~r.ok THEN <<>>
             ELSE (IF r.text # <<>> THEN <<lines[i]>> ELSE <<>>)
                    \o Recorded(r.variables, lines, i + 1)
       IN  Rest(executeLine(vs, removeInlineComments(lines[i])))

\* C27: an execute call appends to the history, in order, exactly the lines
\* it executed with success and a non-empty result (those before a failing
\* line included, the failing line and the lines after it not); getHistory
\* returns the history's lines; and no other step, a push onto the array
\* getHistory returned included, changes the history.
C27_HistoryAppendOnly ==
  [][/\ submitted' # submitted =>
          history' = history \o Recorded(variables, KeptLines(lastCode'), 1)
     /\ submitted' = submitted => history' = history
     /\ (handed' # handed /\ ~handed'.pushed) => handed'.items = history']_vars

\* The call "a = 0 / badExpr(" has thrown, the history holds its first line
\* only, and the caller's push onto the array getHistory returned has not
\* reached it.
C27_Witness ==
  /\ lastCode = Code(<<LineAssignZero, LineBadExpr>>)
  /\ lastResult.status = "thrown"
  /\ history = <<LineAssignZero>>
  /\ handed.given /\ handed.pushed
  /\ handed.items = <<LineAssignZero, LineShadow>>
  /\ getHistory = <<LineAssignZero>>

-----------------------------------------------------------------------------
(* C22 *)

\* The step is a call of transpose on a Matrix of grid M that returns a new
\* Matrix with M's row and column counts swapped, whose entry (j, i) is
\* M's entry (i, j), and whose own transpose is a grid equal to M.
TransposeRoundTrip(M) ==
  /\ outcome'.status = "returned"
  /\ \A T \in {GridOf(rowArrays', matrices'[outcome'.value])} :
       /\ getRows(T) = getCols(M)
       /\ getCols(T) = getRows(M)
       /\ \A i \in 1..getRows(M), j \in 1..getCols(M) : T[j][i] = M[i][j]
       /\ transpose(T) = Ok(M)

\* C22: every call of transpose on a Matrix the constructor has built
\* returns a new Matrix with the receiver's row and column counts swapped,
\* and the transpose of that Matrix is a grid equal to the receiver's.
C22_TransposeRoundTrip ==
  [][call'.op = "transpose" =>
       \A M \in {GridOf(rowArrays, matrices[call'.this])} :
         TransposeRoundTrip(M)]_vars

\* The same for the receivers that have at least one column.
TransposeRoundTripOfColumns ==
  [][call'.op = "transpose" =>
       \A M \in {GridOf(rowArrays, matrices[call'.this])} :
         getCols(M) >= 1 => TransposeRoundTrip(M)]_vars

\* The 1 x 2 Matrix [[1, 2]] was transposed and its transpose was transposed
\* again: the third object holds the grid of the first.
TransposedTwice ==
  /\ Len(matrices) = 3
  /\ call = [op |-> "transpose", this |-> 2]
  /\ outcome = [status |-> "returned", value |-> 3]
  /\ GridOf(rowArrays, matrices[1]) = <<<<1, 2>>>>
  /\ GridOf(rowArrays, matrices[2]) = <<<<1>>, <<2>>>>
  /\ GridOf(rowArrays, matrices[3]) = <<<<1, 2>>>>

-----------------------------------------------------------------------------
(* C23 *)

\* The grids the heap holds and those the constructor accepts.
KnownGrids ==
  {GridOf(rowArrays, matrices[k]) : k \in 1..Len(matrices)}
    \cup {g \in GridChoices : validateData(g).ok}

AsMatrix(grid) == [kind |-> "Matrix", grid |-> grid]

\* C23: when a call A.multiply(B) has returned the product P, then for
\* every known grid C: if B and C are conformant, P times C equals A times
\* (B times C); and if C has the shape of B, A times (B plus C) equals P
\* plus (A times C).
C23_AssociativeDistributive ==
  (call.op = "multiply" /\ ~call.scalar /\ outcome.status = "returned") =>
    \A A \in {GridOf(rowArrays, matrices[call.this])} :
      \A B \in {GridOf(rowArrays, matrices[call.other])} :
        \A P \in {GridOf(rowArrays, matrices[outcome.value])} :
          \A C \in KnownGrids :
            /\ getCols(B) = getRows(C) =>
                 /\ multiply(B, AsMatrix(C)).ok
                 /\ multiply(P, AsMatrix(C)).ok
                 /\ multiply(P, AsMatrix(C))
                      = multiply(A, AsMatrix(multiply(B, AsMatrix(C)).val))
            /\ (getRows(B) = getRows(C) /\ getCols(B) = getCols(C)) =>
                 /\ add(B, C).ok
                 /\ multiply(A, AsMatrix(C)).ok
                 /\ multiply(A, AsMatrix(add(B, C).val))
                      = add(P, multiply(A, AsMatrix(C)).val)

\* [[1, 2]] was multiplied by [[1, 2], [0, 1]]: the third object holds the
\* product [[1, 4]].
C23_Witness ==
  /\ Len(matrices) = 3
  /\ call = [op |-> "multiply", this |-> 1, other |-> 2, scalar |-> FALSE]
  /\ outcome = [status |-> "returned", value |-> 3]
  /\ GridOf(rowArrays, matrices[1]) = <<<<1, 2>>>>
  /\ GridOf(rowArrays, matrices[2]) = <<<<1, 2>>, <<0, 1>>>>
  /\ GridOf(rowArrays, matrices[3]) = <<<<1, 4>>>>

-----------------------------------------------------------------------------
(* C25 *)

\* C25: a call of add, multiply or transpose leaves every Matrix that
\* existed with the row arrays and the entries it had, and the Matrix it
\* returns is a new object none of whose row arrays is held by another; a
\* call of set changes at most the one entry it names of the Matrix it is
\* called on, and no entry of any other Matrix.
C25_NonMutating ==
  [][/\ call'.op \in {"add", "multiply", "transpose"} =>
          /\ \A k \in 1..Len(matrices) :
               /\ k <= Len(matrices')
               /\ matrices'[k] = matrices[k]
               /\ GridOf(rowArrays', matrices'[k]) = GridOf(rowArrays, matrices[k])
          /\ outcome'.status = "returned" =>
               /\ outcome'.value = Len(matrices) + 1
               /\ Len(matrices') = Len(matrices) + 1
               /\ \A i \in 1..Len(matrices'[outcome'.value]) :
                    /\ \A k \in 1..Len(matrices) : \A j \in 1..Len(matrices[k]) :
                         matrices'[outcome'.value][i] # matrices[k][j]
                    /\ \A j \in 1..Len(matrices'[outcome'.value]) :
                         i # j => matrices'[outcome'.value][i] # matrices'[outcome'.value][j]
     /\ call'.op = "set" =>
          /\ matrices' = matrices
          /\ \A k \in 1..Len(matrices) :
               \A old \in {GridOf(rowArrays, matrices[k])} :
                 \A new \in {GridOf(rowArrays', matrices'[k])} :
                   \A i \in 1..getRows(old), j \in 1..getCols(old) :
                     new[i][j] =
                       IF /\ k = call'.this /\ i = call'.i + 1 /\ j = call'.j + 1
                          /\ outcome'.status = "returned"
                       THEN call'.value ELSE old[i][j]]_vars

\* [[1, 2]] was added to itself and entry (0, 0) of the sum was set to 3:
\* the sum holds [[3, 4]] and the receiver still holds [[1, 2]].
C25_Witness ==
  /\ Len(matrices) = 2
  /\ call = [op |-> "set", this |-> 2, i |-> 0, j |-> 0, value |-> 3]
  /\ outcome.status = "returned"
  /\ GridOf(rowArrays, matrices[1]) = <<<<1, 2>>>>
  /\ GridOf(rowArrays, matrices[2]) = <<<<3, 4>>>>

=============================================================================
